---- MODULE Spec2Model ----
(***************************************************************************)
(* Medicines API: the CSV ingestion pipeline (src/db/index.ts) and the     *)
(* query engine (src/server.ts) over one SQLite table (src/db/schema.ts).  *)
(*                                                                         *)
(* Text is modelled as a sequence of one-character strings, so that        *)
(* trimming, case folding, LIKE matching and ordering are computed         *)
(* character by character.  Column names and parameter names, on which the *)
(* code does no character-level work, are plain strings.                   *)
(***************************************************************************)
EXTENDS Integers, Sequences, FiniteSets, TLC

(***************************************************************************)
(* Bounds of the model.                                                    *)
(***************************************************************************)
MaxRows == 6
MaxStore == 3

(***************************************************************************)
(* Characters.                                                             *)
(***************************************************************************)
CharCode ==
    ("\t" :> 9) @@ ("\n" :> 10) @@ ("\r" :> 13) @@ (" " :> 32) @@ ("%" :> 37) @@
    ("(" :> 40) @@ (")" :> 41) @@ ("+" :> 43) @@ ("-" :> 45) @@ ("/" :> 47) @@ ("0" :> 48) @@
    ("1" :> 49) @@ ("2" :> 50) @@ ("3" :> 51) @@ ("4" :> 52) @@ ("5" :> 53) @@
    ("6" :> 54) @@ ("7" :> 55) @@ ("8" :> 56) @@ ("9" :> 57) @@ (":" :> 58) @@
    ("A" :> 65) @@ ("B" :> 66) @@ ("C" :> 67) @@ ("D" :> 68) @@ ("E" :> 69) @@
    ("F" :> 70) @@ ("G" :> 71) @@ ("H" :> 72) @@ ("I" :> 73) @@ ("J" :> 74) @@
    ("K" :> 75) @@ ("L" :> 76) @@ ("M" :> 77) @@ ("N" :> 78) @@ ("O" :> 79) @@
    ("P" :> 80) @@ ("Q" :> 81) @@ ("R" :> 82) @@ ("S" :> 83) @@ ("T" :> 84) @@
    ("U" :> 85) @@ ("V" :> 86) @@ ("W" :> 87) @@ ("X" :> 88) @@ ("Y" :> 89) @@
    ("Z" :> 90) @@ ("_" :> 95) @@ ("a" :> 97) @@ ("b" :> 98) @@ ("c" :> 99) @@
    ("d" :> 100) @@ ("e" :> 101) @@ ("f" :> 102) @@ ("g" :> 103) @@ ("h" :> 104) @@
    ("i" :> 105) @@ ("j" :> 106) @@ ("k" :> 107) @@ ("l" :> 108) @@ ("m" :> 109) @@
    ("n" :> 110) @@ ("o" :> 111) @@ ("p" :> 112) @@ ("q" :> 113) @@ ("r" :> 114) @@
    ("s" :> 115) @@ ("t" :> 116) @@ ("u" :> 117) @@ ("v" :> 118) @@ ("w" :> 119) @@
    ("x" :> 120) @@ ("y" :> 121) @@ ("z" :> 122)

Chars == DOMAIN CharCode

\* SQL NULL / JavaScript null.  It is a one-element tuple whose element is
\* no character, so it differs from every text, the empty text included.
NULL == <<"NULL">>

\* JavaScript undefined, as the result of a property lookup.
undefined == "undefined"

IsText(v) == v # NULL /\ \A i \in 1..Len(v) : v[i] \in Chars

CharOfCode(n) == CHOOSE c \in Chars : CharCode[c] = n

\* String.prototype.toLowerCase on one ASCII character.
LowerChar(c) ==
    IF CharCode[c] >= 65 /\ CharCode[c] <= 90
    THEN CharOfCode(CharCode[c] + 32)
    ELSE c

ToLowerCase(s) == [i \in 1..Len(s) |-> LowerChar(s[i])]

(***************************************************************************)
(* The table: 39 nullable text columns and an autoincrement identity.      *)
(***************************************************************************)
FieldNames ==
    { "category", "nameOfMedicine", "emaProductNumber",
      "medicineStatus", "opinionStatus", "latestProcedure",
      "inn", "activeSubstance", "therapeuticArea",
      "speciesVeterinary", "patientSafety", "atcCodeHuman",
      "atcVetCode", "pharmacotherapeuticGroupHuman", "pharmacotherapeuticGroupVet",
      "therapeuticIndication", "acceleratedAssessment", "additionalMonitoring",
      "advancedTherapy", "biosimilar", "conditionalApproval",
      "exceptionalCircumstances", "genericOrHybrid", "orphanMedicine",
      "primePriorityMedicine", "marketingAuthorisationDeveloper", "commissionDecisionDate",
      "startRollingReviewDate", "startEvaluationDate", "opinionAdoptedDate",
      "withdrawalApplicationDate", "marketingAuthorisationDate", "refusalMarketingAuthorisationDate",
      "withdrawalExpiryRevocationDate", "suspensionMarketingAuthorisationDate", "revisionNumber",
      "firstPublishedDate", "lastUpdatedDate", "medicineUrl" }

\* The object literal's prototype chain: a lookup of a key the literal does
\* not own falls through to Object.prototype.  Each entry gives the
\* property name and the string JavaScript makes of its value.
ObjectPrototype ==
    { <<"constructor", "function Object() { [native code] }">>,
      <<"__proto__", "[object Object]">>,
      <<"__defineGetter__", "function __defineGetter__() { [native code] }">>,
      <<"__defineSetter__", "function __defineSetter__() { [native code] }">>,
      <<"hasOwnProperty", "function hasOwnProperty() { [native code] }">>,
      <<"__lookupGetter__", "function __lookupGetter__() { [native code] }">>,
      <<"__lookupSetter__", "function __lookupSetter__() { [native code] }">>,
      <<"isPrototypeOf", "function isPrototypeOf() { [native code] }">>,
      <<"propertyIsEnumerable", "function propertyIsEnumerable() { [native code] }">>,
      <<"toString", "function toString() { [native code] }">>,
      <<"valueOf", "function valueOf() { [native code] }">>,
      <<"toLocaleString", "function toLocaleString() { [native code] }">> }

ObjectPrototypeNames == { p[1] : p \in ObjectPrototype }

\* The property names that cleanHeader can return (it lower-cases its
\* result), as texts, for lookups keyed by a computed text.
ObjectPrototypeKeys ==
    { <<<<"c","o","n","s","t","r","u","c","t","o","r">>, "constructor">>,
      <<<<"_","_","p","r","o","t","o","_","_">>, "__proto__">> }

(***************************************************************************)
(* Ingestion: header normalisation and the header dictionary.              *)
(***************************************************************************)
csvToTableMapping ==
    {  <<<<"c","a","t","e","g","o","r","y">>,
         "category">>,
       <<<<"n","a","m","e","_","o","f","_","m","e","d","i","c","i","n","e">>,
         "nameOfMedicine">>,
       <<<<"e","m","a","_","p","r","o","d","u","c","t","_","n","u","m","b","e","r">>,
         "emaProductNumber">>,
       <<<<"m","e","d","i","c","i","n","e","_","s","t","a","t","u","s">>,
         "medicineStatus">>,
       <<<<"o","p","i","n","i","o","n","_","s","t","a","t","u","s">>,
         "opinionStatus">>,
       <<<<"l","a","t","e","s","t","_","p","r","o","c","e","d","u","r","e","_","a","f","f","e","c","t","i","n","g","_","p","r","o","d","u","c","t","_","i","n","f","o","r","m","a","t","i","o","n">>,
         "latestProcedure">>,
       <<<<"i","n","t","e","r","n","a","t","i","o","n","a","l","_","n","o","n","-","p","r","o","p","r","i","e","t","a","r","y","_","n","a","m","e","_","i","n","n","_","_","c","o","m","m","o","n","_","n","a","m","e">>,
         "inn">>,
       <<<<"a","c","t","i","v","e","_","s","u","b","s","t","a","n","c","e">>,
         "activeSubstance">>,
       <<<<"t","h","e","r","a","p","e","u","t","i","c","_","a","r","e","a","_","m","e","s","h">>,
         "therapeuticArea">>,
       <<<<"s","p","e","c","i","e","s","_","v","e","t","e","r","i","n","a","r","y">>,
         "speciesVeterinary">>,
       <<<<"p","a","t","i","e","n","t","_","s","a","f","e","t","y">>,
         "patientSafety">>,
       <<<<"a","t","c","_","c","o","d","e","_","h","u","m","a","n">>,
         "atcCodeHuman">>,
       <<<<"a","t","c","v","e","t","_","c","o","d","e","_","v","e","t","e","r","i","n","a","r","y">>,
         "atcVetCode">>,
       <<<<"p","h","a","r","m","a","c","o","t","h","e","r","a","p","e","u","t","i","c","_","g","r","o","u","p","_","h","u","m","a","n">>,
         "pharmacotherapeuticGroupHuman">>,
       <<<<"p","h","a","r","m","a","c","o","t","h","e","r","a","p","e","u","t","i","c","_","g","r","o","u","p","_","v","e","t","e","r","i","n","a","r","y">>,
         "pharmacotherapeuticGroupVet">>,
       <<<<"t","h","e","r","a","p","e","u","t","i","c","_","i","n","d","i","c","a","t","i","o","n">>,
         "therapeuticIndication">>,
       <<<<"a","c","c","e","l","e","r","a","t","e","d","_","a","s","s","e","s","s","m","e","n","t">>,
         "acceleratedAssessment">>,
       <<<<"a","d","d","i","t","i","o","n","a","l","_","m","o","n","i","t","o","r","i","n","g">>,
         "additionalMonitoring">>,
       <<<<"a","d","v","a","n","c","e","d","_","t","h","e","r","a","p","y">>,
         "advancedTherapy">>,
       <<<<"b","i","o","s","i","m","i","l","a","r">>,
         "biosimilar">>,
       <<<<"c","o","n","d","i","t","i","o","n","a","l","_","a","p","p","r","o","v","a","l">>,
         "conditionalApproval">>,
       <<<<"e","x","c","e","p","t","i","o","n","a","l","_","c","i","r","c","u","m","s","t","a","n","c","e","s">>,
         "exceptionalCircumstances">>,
       <<<<"g","e","n","e","r","i","c","_","o","r","_","h","y","b","r","i","d">>,
         "genericOrHybrid">>,
       <<<<"o","r","p","h","a","n","_","m","e","d","i","c","i","n","e">>,
         "orphanMedicine">>,
       <<<<"p","r","i","m","e",":","_","p","r","i","o","r","i","t","y","_","m","e","d","i","c","i","n","e">>,
         "primePriorityMedicine">>,
       <<<<"m","a","r","k","e","t","i","n","g","_","a","u","t","h","o","r","i","s","a","t","i","o","n","_","d","e","v","e","l","o","p","e","r","_","_","a","p","p","l","i","c","a","n","t","_","_","h","o","l","d","e","r">>,
         "marketingAuthorisationDeveloper">>,
       <<<<"e","u","r","o","p","e","a","n","_","c","o","m","m","i","s","s","i","o","n","_","d","e","c","i","s","i","o","n","_","d","a","t","e">>,
         "commissionDecisionDate">>,
       <<<<"s","t","a","r","t","_","o","f","_","r","o","l","l","i","n","g","_","r","e","v","i","e","w","_","d","a","t","e">>,
         "startRollingReviewDate">>,
       <<<<"s","t","a","r","t","_","o","f","_","e","v","a","l","u","a","t","i","o","n","_","d","a","t","e">>,
         "startEvaluationDate">>,
       <<<<"o","p","i","n","i","o","n","_","a","d","o","p","t","e","d","_","d","a","t","e">>,
         "opinionAdoptedDate">>,
       <<<<"w","i","t","h","d","r","a","w","a","l","_","o","f","_","a","p","p","l","i","c","a","t","i","o","n","_","d","a","t","e">>,
         "withdrawalApplicationDate">>,
       <<<<"m","a","r","k","e","t","i","n","g","_","a","u","t","h","o","r","i","s","a","t","i","o","n","_","d","a","t","e">>,
         "marketingAuthorisationDate">>,
       <<<<"r","e","f","u","s","a","l","_","o","f","_","m","a","r","k","e","t","i","n","g","_","a","u","t","h","o","r","i","s","a","t","i","o","n","_","d","a","t","e">>,
         "refusalMarketingAuthorisationDate">>,
       <<<<"w","i","t","h","d","r","a","w","a","l","_","_","e","x","p","i","r","y","_","_","r","e","v","o","c","a","t","i","o","n","_","_","l","a","p","s","e","_","o","f","_","m","a","r","k","e","t","i","n","g","_","a","u","t","h","o","r","i","s","a","t","i","o","n","_","d","a","t","e">>,
         "withdrawalExpiryRevocationDate">>,
       <<<<"s","u","s","p","e","n","s","i","o","n","_","o","f","_","m","a","r","k","e","t","i","n","g","_","a","u","t","h","o","r","i","s","a","t","i","o","n","_","d","a","t","e">>,
         "suspensionMarketingAuthorisationDate">>,
       <<<<"r","e","v","i","s","i","o","n","_","n","u","m","b","e","r">>,
         "revisionNumber">>,
       <<<<"f","i","r","s","t","_","p","u","b","l","i","s","h","e","d","_","d","a","t","e">>,
         "firstPublishedDate">>,
       <<<<"l","a","s","t","_","u","p","d","a","t","e","d","_","d","a","t","e">>,
         "lastUpdatedDate">>,
       <<<<"m","e","d","i","c","i","n","e","_","u","r","l">>,
         "medicineUrl">> }

\* csvToTableMapping[cleanKey]: an own key, else an inherited property,
\* else undefined.
csvToTableMappingAt(cleanKey) ==
    IF \E p \in csvToTableMapping : p[1] = cleanKey
    THEN (CHOOSE p \in csvToTableMapping : p[1] = cleanKey)[2]
    ELSE IF \E p \in ObjectPrototypeKeys : p[1] = cleanKey
    THEN LET name == (CHOOSE p \in ObjectPrototypeKeys : p[1] = cleanKey)[2]
         IN  (CHOOSE q \in ObjectPrototype : q[1] = name)[2]
    ELSE undefined

\* What String.prototype.trim removes.
WhiteSpace == {" ", "\t", "\n", "\r"}

RECURSIVE TrimStart(_)
TrimStart(s) ==
    IF s # <<>> /\ Head(s) \in WhiteSpace THEN TrimStart(Tail(s)) ELSE s

RECURSIVE TrimEnd(_)
TrimEnd(s) ==
    IF s # <<>> /\ s[Len(s)] \in WhiteSpace
    THEN TrimEnd(SubSeq(s, 1, Len(s) - 1))
    ELSE s

Trim(s) == TrimEnd(TrimStart(s))

\* .replace(/\n/g, " ")
ReplaceNewlines(s) == [i \in 1..Len(s) |-> IF s[i] = "\n" THEN " " ELSE s[i]]

\* .replace(/ +/g, "_"): every maximal run of spaces becomes one underscore.
RECURSIVE CollapseSpaces(_)
CollapseSpaces(s) ==
    IF s = <<>> THEN <<>>
    ELSE IF Head(s) = " "
    THEN IF Len(s) > 1 /\ s[2] = " "
         THEN CollapseSpaces(Tail(s))
         ELSE <<"_">> \o CollapseSpaces(Tail(s))
    ELSE <<Head(s)>> \o CollapseSpaces(Tail(s))

\* .replace(/[()\/]/g, "")
RemoveBrackets(s) == SelectSeq(s, LAMBDA c : c \notin {"(", ")", "/"})

cleanHeader(raw) ==
    ToLowerCase(RemoveBrackets(CollapseSpaces(ReplaceNewlines(Trim(raw)))))

EmptyObj == [k \in {} |-> NULL]

\* One parsed record is the sequence of its [header, cell] entries, in
\* column order (Object.entries).  transformRow folds them into insertObj.
RECURSIVE transformEntries(_, _)
transformEntries(entries, insertObj) ==
    IF entries = <<>> THEN insertObj
    ELSE LET rawKey == Head(entries)[1]
             rawVal == Head(entries)[2]
             tableColumn == csvToTableMappingAt(cleanHeader(rawKey))
         IN  transformEntries(
                 Tail(entries),
                 IF tableColumn # undefined
                 THEN (tableColumn :> (IF rawVal = <<>> THEN NULL ELSE rawVal))
                          @@ insertObj
                 ELSE insertObj)

transformRow(row) == transformEntries(row, EmptyObj)

\* insertMedicineSchema.parse: every column is an optional nullable string
\* and id an optional integer; keys the schema does not know are stripped.
validateRowOk(insertObj) ==
    /\ \A k \in DOMAIN insertObj \cap FieldNames :
           insertObj[k] = NULL \/ IsText(insertObj[k])
    /\ "id" \in DOMAIN insertObj => insertObj["id"] \in Int

validateRow(insertObj) ==
    [k \in DOMAIN insertObj \cap (FieldNames \cup {"id"}) |-> insertObj[k]]

\* The row the store materialises for a validated object: the next
\* autoincrement identity and NULL in every column the object lacks.
NewRow(validated, id) ==
    [id |-> id,
     col |-> [f \in FieldNames |->
                 IF f \in DOMAIN validated THEN validated[f] ELSE NULL]]

(***************************************************************************)
(* The CSV sources the import runs are given.                              *)
(***************************************************************************)
\* A field of the CSV text: its characters and whether it is written in
\* double quotes.
Cell(quoted, text) == [quoted |-> quoted, text |-> text]

Headers ==
    << Cell(FALSE, <<"C","a","t","e","g","o","r","y">>),
       Cell(TRUE, <<"N","a","m","e"," ","o","f","\n","m","e","d","i","c","i","n","e">>),
       Cell(FALSE, <<"L","a","s","t"," ","u","p","d","a","t","e","d"," ","d","a","t","e">>),
       Cell(FALSE, <<"N","o","t","e","s">>),
       Cell(FALSE, <<"C","A","T","E","G","O","R","Y"," ">>),
       Cell(FALSE, <<"C","a","t","e","g","o","r","y">>) >>

SampleCells ==
    << << Cell(FALSE, <<"H","u","m","a","n">>), Cell(FALSE, <<"A","b">>),
          Cell(TRUE, <<"2","0","2","0","-","0","1","-","0","2"," ">>), Cell(FALSE, <<"x">>),
          Cell(TRUE, <<"H","u","m","a","n"," ">>),
          Cell(FALSE, <<"V","e","t","e","r","i","n","a","r","y">>) >>,
       << Cell(FALSE, <<"V","e","t","e","r","i","n","a","r","y">>), Cell(FALSE, <<" ">>), Cell(FALSE, <<>>),
          Cell(FALSE, <<"x">>), Cell(FALSE, <<>>), Cell(FALSE, <<"H","u","m","a","n">>) >>,
       << Cell(FALSE, <<"V","e","t","e","r","i","n","a","r","y">>), Cell(FALSE, <<" ","A","b">>),
          Cell(TRUE, <<"2","0","2","0","-","0","1","-","0","2"," ">>), Cell(FALSE, <<>>),
          Cell(TRUE, <<"H","u","m","a","n"," ">>), Cell(FALSE, <<"H","u","m","a","n">>) >> >>

\* Data line i of the source: its cells under the header line.
SourceLine(i) ==
    LET cells == SampleCells[((i - 1) % Len(SampleCells)) + 1]
    IN  [c \in 1..Len(Headers) |-> <<Headers[c], cells[c]>>]

SourceLines(n) == [i \in 1..n |-> SourceLine(i)]

\* A row already in the table before the run.
OldRow ==
    NewRow(("category" :> <<"H","u","m","a","n">>)
               @@ ("nameOfMedicine" :> <<"O","l","d">>), 1)

(***************************************************************************)
(* State.                                                                  *)
(***************************************************************************)
VARIABLES
    store,      \* the medicines table: rows in insertion order
    nextId,     \* the next autoincrement identity
    store0,     \* the table as it was when the process started
    source,     \* the CSV file: readable, wellFormed, lines
    pc,         \* where importCSV is
    failure,    \* the error importCSV failed with, or "none"
    records,    \* parseCSV's result
    task,       \* one entry per record: the state of its processRow fiber
    result,     \* what processAllRows returned
    logged,     \* the errors importCSV wrote to the console
    returned,   \* what importCSV returned
    response,   \* the last response of the query API
    process     \* the process: its arguments, servers started, exit

vars == <<store, nextId, store0, source, pc, failure, records, task, result,
          logged, returned, response, process>>

importVars ==
    <<source, pc, failure, records, task, result, logged, returned, process>>

\* The process once its top-level code has run: started with --import, the
\* import is under way and its promise has not been handled; started
\* without, startServer has been called.
ImportProcess ==
    [import |-> TRUE, handled |-> FALSE, servers |-> 0, exited |-> FALSE,
     code |-> 0]

ServerProcess ==
    [import |-> FALSE, handled |-> FALSE, servers |-> 1, exited |-> FALSE,
     code |-> 0]

\* The number of errors importCSV prints.
PreviewSize == 5

NoResult == [kind |-> "none"]
NoResponse == [request |-> [op |-> "none"]]

(***************************************************************************)
(* importCSV: read, parse, process every row, report.                      *)
(***************************************************************************)
\* trim: true strips the white space around a field; the white space
\* inside the quotes of a quoted field is part of its value.
ParseField(cell) == IF cell.quoted THEN cell.text ELSE Trim(cell.text)

\* The object csv-parse builds from the fields of one line, as its entries:
\* a property is created where its name first occurs and assigned again
\* at every later column of the same name, so it keeps the first position
\* and holds the last value.
Record(fields) ==
    LET columns == [c \in 1..Len(fields) |-> c]
        created == SelectSeq(columns, LAMBDA c :
                       \A d \in 1..(c - 1) : fields[d][1] # fields[c][1])
        assigned(c) == CHOOSE d \in c..Len(fields) :
                           /\ fields[d][1] = fields[c][1]
                           /\ \A e \in (d + 1)..Len(fields) :
                                  fields[e][1] # fields[c][1]
    IN  [k \in 1..Len(created) |->
            <<fields[created[k]][1], fields[assigned(created[k])][2]>>]

\* Faulty variant: the parser is run without trim: true.
parseCSV_NoTrim(content) ==
    [i \in 1..Len(content) |->
        Record([c \in 1..Len(content[i]) |->
                   <<content[i][c][1].text, content[i][c][2].text>>])]

\* csv-parse with columns: true and trim: true: one record per data line,
\* keyed by the fields of the header line.
parseCSV(content) ==
    [i \in 1..Len(content) |->
        Record([c \in 1..Len(content[i]) |->
                   <<ParseField(content[i][c][1]),
                     ParseField(content[i][c][2])>>])]

readCSVFile ==
    /\ pc = "start"
    /\ IF source.readable
       THEN pc' = "read" /\ failure' = failure
       ELSE pc' = "failed" /\ failure' = "CSVReadError"
    /\ UNCHANGED <<store, nextId, store0, source, records, task, result,
                   logged, returned, response, process>>

\* Faulty variant: a parse failure is swallowed and the run goes on with no records.
ParseCSV_Swallow ==
    /\ pc = "read"
    /\ records' = IF source.wellFormed THEN parseCSV(source.lines) ELSE <<>>
    /\ pc' = "parsed"
    /\ UNCHANGED <<store, nextId, store0, source, failure, task, result,
                   logged, returned, response, process>>

ParseCSV ==
    /\ pc = "read"
    /\ IF source.wellFormed
       THEN /\ records' = parseCSV(source.lines)
            /\ pc' = "parsed"
            /\ failure' = failure
       ELSE /\ records' = records
            /\ pc' = "failed"
            /\ failure' = "CSVParseError"
    /\ UNCHANGED <<store, nextId, store0, source, task, result, logged,
                   returned, response, process>>

\* Effect.forEach(records, ..., { concurrency: "unbounded" }): one fiber per
\* record, all forked before any is joined.
ForkRows ==
    /\ pc = "parsed"
    /\ task' = [i \in 1..Len(records) |->
                   [st |-> "pending", attempts |-> 0, inserts |-> 0,
                    error |-> "none"]]
    /\ pc' = "rows"
    /\ UNCHANGED <<store, nextId, store0, source, failure, records, result,
                   logged, returned, response, process>>

\* processRow up to its first asynchronous step: transformRow, validateRow.
TransformAndValidate(i) ==
    /\ pc = "rows"
    /\ i \in DOMAIN task
    /\ task[i].st = "pending"
    /\ LET insertObj == transformRow(records[i])
       IN  task' = [task EXCEPT
             ![i] = [@ EXCEPT
                 !.st = IF validateRowOk(insertObj) THEN "inserting" ELSE "failed",
                 !.attempts = @ + 1,
                 !.error = IF validateRowOk(insertObj) THEN "none"
                           ELSE "ValidationError"]]
    /\ UNCHANGED <<store, nextId, store0, source, pc, failure, records,
                   result, logged, returned, response, process>>

\* Faulty variant: the insert is an upsert keyed on the row's values; a row
\* the store already holds is written over instead of added again.
insertRow_Upsert(i) ==
    /\ pc = "rows"
    /\ i \in DOMAIN task
    /\ task[i].st = "inserting"
    /\ LET new == NewRow(validateRow(transformRow(records[i])), nextId)
       IN  IF \E k \in 1..Len(store) : store[k].col = new.col
           THEN UNCHANGED <<store, nextId>>
           ELSE /\ store' = Append(store, new)
                /\ nextId' = nextId + 1
    /\ task' = [task EXCEPT ![i] = [@ EXCEPT !.st = "succeeded",
                                             !.inserts = @ + 1]]
    /\ UNCHANGED <<store0, source, pc, failure, records, result, logged,
                   returned, response, process>>

\* insertRow: db.insert(medicines).values(validated).  The store accepts the
\* row, or rejects it and the rejection becomes a DatabaseInsertError.
insertRow(i) ==
    /\ pc = "rows"
    /\ i \in DOMAIN task
    /\ task[i].st = "inserting"
    /\ \E accepted \in BOOLEAN :
         IF accepted
         THEN /\ store' = Append(store,
                     NewRow(validateRow(transformRow(records[i])), nextId))
              /\ nextId' = nextId + 1
              /\ task' = [task EXCEPT ![i] = [@ EXCEPT !.st = "succeeded",
                                                       !.inserts = @ + 1]]
         ELSE /\ UNCHANGED <<store, nextId>>
              /\ task' = [task EXCEPT
                    ![i] = [@ EXCEPT !.st = "failed", !.inserts = @ + 1,
                                     !.error = "DatabaseInsertError"]]
    /\ UNCHANGED <<store0, source, pc, failure, records, result, logged,
                   returned, response, process>>

\* Faulty variant: the forEach is not awaited; aggregation may start at any time.
AllRowsSettled_NoJoin == TRUE

\* Effect.forEach resumes processAllRows once every fiber has ended.
AllRowsSettled == \A i \in DOMAIN task : task[i].st \in {"succeeded", "failed"}

\* The results array, in the order of the records.
Results ==
    [i \in DOMAIN task |->
        [success |-> task[i].st = "succeeded",
         error |-> IF task[i].st = "failed"
                   THEN [tag |-> task[i].error, row |-> i]
                   ELSE [tag |-> "null", row |-> i]]]

RECURSIVE MapError(_)
MapError(rs) ==
    IF rs = <<>> THEN <<>> ELSE <<Head(rs).error>> \o MapError(Tail(rs))

\* Faulty variant: successCount counts every result, failed ones included.
Aggregate_CountAll(results) ==
    [kind |-> "outcome",
     successCount |-> Len(results),
     errorCount |-> Len(SelectSeq(results, LAMBDA r : ~r.success)),
     errors |-> SelectSeq(MapError(SelectSeq(results, LAMBDA r : ~r.success)),
                          LAMBDA e : e.tag # "null")]

\* processAllRows after the forEach: the two counts and the error list.
Aggregate(results) ==
    [kind |-> "outcome",
     successCount |-> Len(SelectSeq(results, LAMBDA r : r.success)),
     errorCount |-> Len(SelectSeq(results, LAMBDA r : ~r.success)),
     errors |-> SelectSeq(MapError(SelectSeq(results, LAMBDA r : ~r.success)),
                          LAMBDA e : e.tag # "null")]

processAllRows ==
    /\ pc = "rows"
    /\ AllRowsSettled
    /\ result' = Aggregate(Results)
    /\ pc' = "aggregated"
    /\ UNCHANGED <<store, nextId, store0, source, failure, records, task,
                   logged, returned, response, process>>

\* Faulty variant: no slice, every error is printed.
Slice_All(s, n) == s

\* result.errors.slice(0, 5)
Slice(s, n) == SubSeq(s, 1, IF Len(s) < n THEN Len(s) ELSE n)

\* importCSV after processAllRows: print at most five errors, return result.
importCSVReport ==
    /\ pc = "aggregated"
    /\ logged' = Slice(result.errors, PreviewSize)
    /\ returned' = result
    /\ pc' = "done"
    /\ UNCHANGED <<store, nextId, store0, source, failure, records, task,
                   result, response, process>>

ImportNext ==
    \/ readCSVFile
    \/ ParseCSV
    \/ ForkRows
    \/ \E i \in DOMAIN task : TransformAndValidate(i)
    \/ \E i \in DOMAIN task : insertRow(i)
    \/ processAllRows
    \/ importCSVReport

InitImport ==
    /\ store \in {<<>>, <<OldRow>>}
    /\ nextId = Len(store) + 1
    /\ store0 = store
    /\ source \in [readable : BOOLEAN, wellFormed : BOOLEAN,
                   lines : {SourceLines(n) : n \in 0..MaxRows}]
    /\ pc = "start"
    /\ failure = "none"
    /\ records = <<>>
    /\ task = <<>>
    /\ result = NoResult
    /\ logged = <<>>
    /\ returned = NoResult
    /\ response = NoResponse
    /\ process = ImportProcess

SpecImport == InitImport /\ [][ImportNext]_vars

(***************************************************************************)
(* The query engine: predicates.                                           *)
(***************************************************************************)
\* SQLite's LIKE: % matches any run of characters, _ any one character,
\* and ASCII letters match without regard to case.
RECURSIVE LikeMatch(_, _)
LikeMatch(p, s) ==
    IF p = <<>> THEN s = <<>>
    ELSE IF Head(p) = "%"
    THEN LikeMatch(Tail(p), s) \/ (s # <<>> /\ LikeMatch(p, Tail(s)))
    ELSE IF s = <<>> THEN FALSE
    ELSE IF Head(p) = "_" THEN LikeMatch(Tail(p), Tail(s))
    ELSE LowerChar(Head(p)) = LowerChar(Head(s))
             /\ LikeMatch(Tail(p), Tail(s))

\* column LIKE pattern; NULL LIKE anything is not true.
like(v, pattern) == v # NULL /\ LikeMatch(pattern, v)

\* SQLite's BINARY collation: texts compare character code by character
\* code, a proper prefix first.
RECURSIVE TextLess(_, _)
TextLess(a, b) ==
    IF b = <<>> THEN FALSE
    ELSE IF a = <<>> THEN TRUE
    ELSE IF CharCode[Head(a)] # CharCode[Head(b)]
    THEN CharCode[Head(a)] < CharCode[Head(b)]
    ELSE TextLess(Tail(a), Tail(b))

TextLessEq(a, b) == a = b \/ TextLess(a, b)

\* Faulty variant: the field table also has an entry named like a reserved parameter.
fieldMappingKeys_WithSearch == FieldNames \cup {"search"}

\* The keys of fieldMapping.
fieldMappingKeys == FieldNames

\* fieldMapping[key]: the column, else an inherited property of the object
\* literal, else undefined.
fieldMappingAt(key) ==
    IF key \in fieldMappingKeys THEN key
    ELSE IF key \in ObjectPrototypeNames
    THEN (CHOOSE p \in ObjectPrototype : p[1] = key)[2]
    ELSE undefined

reservedParams ==
    { "page", "pageSize", "search", "marketingAuthorisationDateFrom",
      "marketingAuthorisationDateTo", "lastUpdatedDateFrom",
      "lastUpdatedDateTo" }

\* queryParams.name: the parameter's value, or the empty text when the
\* request has no such parameter (both are falsy).
Param(queryParams, name) ==
    IF \E k \in 1..Len(queryParams) : queryParams[k][1] = name
    THEN queryParams[CHOOSE k \in 1..Len(queryParams) :
                         queryParams[k][1] = name][2]
    ELSE <<>>

Wrap(value) == <<"%">> \o value \o <<"%">>

\* Faulty variant: the loop does not skip parameters whose value is empty.
RECURSIVE FieldConditions_KeepEmpty(_)
FieldConditions_KeepEmpty(entries) ==
    IF entries = <<>> THEN <<>>
    ELSE LET key == Head(entries)[1]
             value == Head(entries)[2]
         IN  IF key \in reservedParams
             THEN FieldConditions_KeepEmpty(Tail(entries))
             ELSE IF fieldMappingAt(key) # undefined
             THEN <<[op |-> "like", param |-> key,
                     column |-> fieldMappingAt(key), pattern |-> Wrap(value)]>>
                      \o FieldConditions_KeepEmpty(Tail(entries))
             ELSE FieldConditions_KeepEmpty(Tail(entries))

\* The loop over Object.entries(queryParams).
RECURSIVE FieldConditions(_)
FieldConditions(entries) ==
    IF entries = <<>> THEN <<>>
    ELSE LET key == Head(entries)[1]
             value == Head(entries)[2]
         IN  IF key \in reservedParams \/ value = <<>>
             THEN FieldConditions(Tail(entries))
             ELSE IF fieldMappingAt(key) # undefined
             THEN <<[op |-> "like", param |-> key,
                     column |-> fieldMappingAt(key), pattern |-> Wrap(value)]>>
                      \o FieldConditions(Tail(entries))
             ELSE FieldConditions(Tail(entries))

DateCondition(queryParams, name, op, column) ==
    IF Param(queryParams, name) # <<>>
    THEN <<[op |-> op, param |-> name, column |-> column,
            value |-> Param(queryParams, name)]>>
    ELSE <<>>

DateConditions(queryParams) ==
    DateCondition(queryParams, "marketingAuthorisationDateFrom", ">=",
                  "marketingAuthorisationDate")
    \o DateCondition(queryParams, "marketingAuthorisationDateTo", "<=",
                     "marketingAuthorisationDate")
    \o DateCondition(queryParams, "lastUpdatedDateFrom", ">=",
                     "lastUpdatedDate")
    \o DateCondition(queryParams, "lastUpdatedDateTo", "<=",
                     "lastUpdatedDate")

SearchColumns ==
    << "nameOfMedicine", "inn", "activeSubstance", "therapeuticArea",
       "therapeuticIndication", "marketingAuthorisationDeveloper",
       "emaProductNumber" >>

SearchCondition(queryParams) ==
    IF Param(queryParams, "search") # <<>>
    THEN <<[op |-> "or", param |-> "search", columns |-> SearchColumns,
            pattern |-> Wrap(Param(queryParams, "search"))]>>
    ELSE <<>>

Where(conditions) ==
    IF Len(conditions) > 0
    THEN [defined |-> TRUE, conditions |-> conditions]
    ELSE [defined |-> FALSE, conditions |-> <<>>]

\* Faulty variant of buildWhereClause: empty values are not skipped.
buildWhereClause_KeepEmpty(queryParams) ==
    Where(FieldConditions_KeepEmpty(queryParams) \o DateConditions(queryParams)
              \o SearchCondition(queryParams))

buildWhereClause(queryParams) ==
    Where(FieldConditions(queryParams) \o DateConditions(queryParams)
              \o SearchCondition(queryParams))

\* A condition that names something which is no column of the table cannot
\* be run: the query fails in the store.
Runnable(whereClause) ==
    \A k \in 1..Len(whereClause.conditions) :
        LET c == whereClause.conditions[k]
        IN  c.op = "or" \/ c.column \in FieldNames

\* Faulty variant: the date comparisons are strict (gt / lt).
Holds_Exclusive(c, row) ==
    IF c.op = "like" THEN like(row.col[c.column], c.pattern)
    ELSE IF c.op = ">="
    THEN row.col[c.column] # NULL /\ TextLess(c.value, row.col[c.column])
    ELSE IF c.op = "<="
    THEN row.col[c.column] # NULL /\ TextLess(row.col[c.column], c.value)
    ELSE \E j \in 1..Len(c.columns) : like(row.col[c.columns[j]], c.pattern)

Holds(c, row) ==
    IF c.op = "like" THEN like(row.col[c.column], c.pattern)
    ELSE IF c.op = ">="
    THEN row.col[c.column] # NULL /\ TextLessEq(c.value, row.col[c.column])
    ELSE IF c.op = "<="
    THEN row.col[c.column] # NULL /\ TextLessEq(row.col[c.column], c.value)
    ELSE \E j \in 1..Len(c.columns) : like(row.col[c.columns[j]], c.pattern)

\* .where(whereClause): undefined selects every row.
Matches(whereClause, row) ==
    \A k \in 1..Len(whereClause.conditions) :
        Holds(whereClause.conditions[k], row)

Matching(whereClause) == SelectSeq(store, LAMBDA row : Matches(whereClause, row))

\* getTotalCount
getTotalCount(whereClause) == Len(Matching(whereClause))

Offset(page, pageSize) == (page - 1) * pageSize

\* Faulty variant: the select has the offset but no limit.
getPaginatedData_NoLimit(whereClause, page, pageSize) ==
    LET offset == Offset(page, pageSize)
        rows == Matching(whereClause)
    IN  SubSeq(rows, offset + 1, Len(rows))

\* getPaginatedData: .limit(pageSize).offset((page - 1) * pageSize)
getPaginatedData(whereClause, page, pageSize) ==
    LET offset == Offset(page, pageSize)
        rows == Matching(whereClause)
        last == IF offset + pageSize < Len(rows) THEN offset + pageSize
                ELSE Len(rows)
    IN  SubSeq(rows, offset + 1, last)

(***************************************************************************)
(* The query engine: the request handlers.                                 *)
(***************************************************************************)
\* An optional integer parameter of a request.
None == [present |-> FALSE]
Some(n) == [present |-> TRUE, value |-> n]
OrElse(opt, default) == IF opt.present THEN opt.value ELSE default

DefaultPage == 1
DefaultPageSize == 50
MaxPageSize == 100

\* Math.ceil(total / pageSize)
Ceil(total, pageSize) == (total + pageSize - 1) \div pageSize

\* Faulty variant: the total of zero is not special-cased.
Pagination_NoZeroGuard(page, pageSize, total) ==
    LET totalPages == Ceil(total, pageSize)
    IN  [page |-> page, pageSize |-> pageSize, totalRecords |-> total,
         totalPages |-> totalPages, hasNextPage |-> page < totalPages,
         hasPreviousPage |-> page > 1]

\* The pagination object of a list response.
Pagination(page, pageSize, total) ==
    LET totalPages == IF total # 0 THEN Ceil(total, pageSize) ELSE 1
    IN  [page |-> page, pageSize |-> pageSize, totalRecords |-> total,
         totalPages |-> totalPages, hasNextPage |-> page < totalPages,
         hasPreviousPage |-> page > 1]

\* The decimal text of a natural number.
RECURSIVE NumText(_)
NumText(n) ==
    IF n < 10 THEN <<CharOfCode(48 + n)>>
    ELSE NumText(n \div 10) \o <<CharOfCode(48 + (n % 10))>>

\* The query object the handler receives: the filter parameters and, when
\* the request has them, page and pageSize.
QueryObject(query, pageParam, pageSizeParam) ==
    (IF pageParam.present
     THEN <<<<"page", NumText(pageParam.value)>>>> ELSE <<>>)
    \o (IF pageSizeParam.present
        THEN <<<<"pageSize", NumText(pageSizeParam.value)>>>> ELSE <<>>)
    \o query

\* new HTTPError(status, message): what a handler's effect fails with.
HTTPError(status, message) ==
    [class |-> "HTTPError", status |-> status, message |-> message]

\* Effect.runPromise(effect) of a failed effect: the promise rejects with a
\* FiberFailure that wraps the failure; it is not the failure itself.
runPromise(cause) == [class |-> "FiberFailure", cause |-> cause]

\* onError: an HTTPError is answered with its status and message, anything
\* else with 500 Internal server error.
onError(error) ==
    IF error.class = "HTTPError"
    THEN [status |-> error.status, error |-> error.message]
    ELSE [status |-> 500, error |-> "Internal server error"]

\* The response to a request whose handler failed with httpError.  thrown
\* records the handler's failure, queried whether a statement was run.
Rejected(request, httpError, queried) ==
    LET answer == onError(runPromise(httpError))
    IN  [request |-> request, status |-> answer.status,
         error |-> answer.error, queried |-> queried, thrown |-> httpError]

\* GET /medicines, up to getTotalCount: the where clause is built and the
\* count query run.  A statement the store rejects fails the handler;
\* otherwise the handler goes on to the select.  countedRows records the
\* size of the table the count query saw.
ListCounted(query, pageParam, pageSizeParam) ==
    LET whereClause ==
            buildWhereClause(QueryObject(query, pageParam, pageSizeParam))
        request == [op |-> "list", query |-> query, pageParam |-> pageParam,
                    pageSizeParam |-> pageSizeParam, where |-> whereClause]
    IN  IF ~Runnable(whereClause)
        THEN Rejected(request, HTTPError(500, "Database error occurred"),
                      TRUE)
        ELSE [request |-> [request EXCEPT !.op = "listCount"],
              total |-> getTotalCount(whereClause),
              countedRows |-> Len(store)]

\* GET /medicines, from getPaginatedData: the select runs on the table as
\* it is now, and the response is built from its rows and the total
\* counted before.
ListSelected(counted) ==
    LET request == counted.request
        page == OrElse(request.pageParam, DefaultPage)
        pageSize == OrElse(request.pageSizeParam, DefaultPageSize)
    IN  [request |-> [request EXCEPT !.op = "list"],
         status |-> 200, queried |-> TRUE,
         offset |-> Offset(page, pageSize),
         data |-> getPaginatedData(request.where, page, pageSize),
         pagination |-> Pagination(page, pageSize, counted.total),
         countedRows |-> counted.countedRows,
         selectedRows |-> Len(store)]

\* ORDER BY over a set of texts, ascending in the BINARY collation.
RECURSIVE OrderBy(_)
OrderBy(S) ==
    IF S = {} THEN <<>>
    ELSE LET least == CHOOSE x \in S : \A y \in S : TextLessEq(x, y)
         IN  <<least>> \o OrderBy(S \ {least})

\* Faulty variant: the WHERE keeps empty texts (only NULL is filtered out).
selectDistinct_KeepEmpty(column) ==
    OrderBy({store[i].col[column] : i \in
                {k \in 1..Len(store) : store[k].col[column] # NULL}})

\* SELECT DISTINCT column WHERE column IS NOT NULL AND column != ''
\* ORDER BY column
selectDistinct(column) ==
    OrderBy({store[i].col[column] : i \in
                {k \in 1..Len(store) :
                    store[k].col[column] # NULL /\ store[k].col[column] # <<>>}})

\* GET /medicines/fields/:fieldName
FieldValuesResponse(fieldName) ==
    LET field == fieldMappingAt(fieldName)
        request == [op |-> "fields", fieldName |-> fieldName]
    IN  IF field = undefined
        THEN Rejected(request, HTTPError(400, "Invalid field name"), FALSE)
        ELSE IF field \notin FieldNames
        THEN Rejected(request, HTTPError(500, "Database error occurred"),
                      TRUE)
        ELSE [request |-> request, status |-> 200, queried |-> TRUE,
              field |-> fieldName, values |-> selectDistinct(field)]

\* parseInt(string): leading white space, a sign, an optional 0x prefix,
\* then the longest run of digits of the radix; NaN when that run is empty.
NaN == [nan |-> TRUE]
Num(n) == [nan |-> FALSE, value |-> n]

DigitValue(c) ==
    IF CharCode[c] >= 48 /\ CharCode[c] <= 57 THEN CharCode[c] - 48
    ELSE IF CharCode[c] >= 97 /\ CharCode[c] <= 102 THEN CharCode[c] - 87
    ELSE IF CharCode[c] >= 65 /\ CharCode[c] <= 70 THEN CharCode[c] - 55
    ELSE 99

RECURSIVE DigitPrefix(_, _)
DigitPrefix(s, radix) ==
    IF s # <<>> /\ DigitValue(Head(s)) < radix
    THEN <<Head(s)>> \o DigitPrefix(Tail(s), radix)
    ELSE <<>>

RECURSIVE NumberOf(_, _, _)
NumberOf(digits, radix, acc) ==
    IF digits = <<>> THEN acc
    ELSE NumberOf(Tail(digits), radix, acc * radix + DigitValue(Head(digits)))

parseInt(string) ==
    LET s == TrimStart(string)
        signed == s # <<>> /\ Head(s) \in {"+", "-"}
        sign == IF s # <<>> /\ Head(s) = "-" THEN -1 ELSE 1
        u == IF signed THEN Tail(s) ELSE s
        hex == Len(u) >= 2 /\ u[1] = "0" /\ u[2] \in {"x", "X"}
        radix == IF hex THEN 16 ELSE 10
        digits == DigitPrefix(IF hex THEN SubSeq(u, 3, Len(u)) ELSE u, radix)
    IN  IF digits = <<>> THEN NaN ELSE Num(sign * NumberOf(digits, radix, 0))

\* SELECT * FROM medicines WHERE id = numId LIMIT 1
selectById(numId) ==
    LET rows == SelectSeq(store, LAMBDA row : row.id = numId)
    IN  SubSeq(rows, 1, IF Len(rows) < 1 THEN Len(rows) ELSE 1)

\* GET /medicines/:id
MedicineResponse(id) ==
    LET numId == parseInt(id)
        request == [op |-> "getById", id |-> id]
    IN  IF numId.nan
        THEN Rejected(request, HTTPError(400, "Invalid ID"), FALSE)
        ELSE LET results == selectById(numId.value)
             IN  IF Len(results) = 0
                 THEN Rejected(request,
                               HTTPError(404, "Medicine not found"), TRUE)
                 ELSE [request |-> request, status |-> 200, queried |-> TRUE,
                       matched |-> Len(results), body |-> results[1]]

\* The page arithmetic of GET /medicines, given the count query's result.
PageResponse(pageParam, pageSizeParam, total) ==
    LET page == OrElse(pageParam, DefaultPage)
        pageSize == OrElse(pageSizeParam, DefaultPageSize)
    IN  [request |-> [op |-> "paginate", pageParam |-> pageParam,
                      pageSizeParam |-> pageSizeParam, total |-> total],
         status |-> 200, queried |-> TRUE,
         offset |-> Offset(page, pageSize),
         pagination |-> Pagination(page, pageSize, total)]

(***************************************************************************)
(* The requests and the table contents the query engine is run on.         *)
(***************************************************************************)
MaxParams == 2

\* The filter parameters of the requests and the values each is given.
ParamOrder ==
    << "category", "nameOfMedicine", "search",
       "marketingAuthorisationDateFrom", "marketingAuthorisationDateTo",
       "lastUpdatedDateFrom", "lastUpdatedDateTo", "constructor", "id" >>

ParamValues(name) ==
    IF name = "category" THEN {<<>>, <<"H","u","m","a","n">>}
    ELSE IF name = "nameOfMedicine" THEN {<<>>, <<"b">>, <<"%">>}
    ELSE IF name = "search" THEN {<<>>, <<"x">>}
    ELSE IF name \in {"marketingAuthorisationDateFrom", "lastUpdatedDateTo"}
    THEN {<<>>, <<"2","0","2","0","-","0","1","-","0","2">>}
    ELSE IF name \in {"marketingAuthorisationDateTo", "lastUpdatedDateFrom"}
    THEN {<<"2","0","2","0","-","0","1","-","0","2">>}
    ELSE {<<"1">>}

ParamNames == {ParamOrder[k] : k \in 1..Len(ParamOrder)}

\* A request's query object: its entries, in the order of ParamOrder.
RECURSIVE Entries(_, _)
Entries(bag, k) ==
    IF k > Len(ParamOrder) THEN <<>>
    ELSE IF ParamOrder[k] \in DOMAIN bag
    THEN <<<<ParamOrder[k], bag[ParamOrder[k]]>>>> \o Entries(bag, k + 1)
    ELSE Entries(bag, k + 1)

Queries ==
    UNION { { Entries(bag, 1) :
                bag \in {b \in [names -> UNION {ParamValues(n) : n \in names}] :
                            \A n \in names : b[n] \in ParamValues(n)} } :
            names \in {ns \in SUBSET ParamNames : Cardinality(ns) <= MaxParams} }

PageParams ==
    { <<None, None>>, <<Some(2), Some(1)>>, <<Some(1), Some(2)>> }

FieldNameParams ==
    FieldNames \cup ObjectPrototypeNames \cup reservedParams
        \cup {"id", "Category", "name_of_medicine", ""}

IdParams ==
    { <<"1">>, <<"2">>, <<"3">>, <<"4">>, <<"0">>, <<"-","1">>, <<" ","2">>,
      <<"1","x">>, <<"x">>, <<"0","x","2">>, <<"0","2">>, <<>> }

\* The columns of the rows the table is filled with.
StoredObjects ==
    { ("category" :> <<"H","u","m","a","n">>) @@ ("nameOfMedicine" :> <<"A","b">>)
          @@ ("marketingAuthorisationDate" :> <<"2","0","2","0","-","0","1","-","0","2">>)
          @@ ("lastUpdatedDate" :> <<"2","0","2","0","-","0","1","-","0","2">>) @@ ("inn" :> <<"x">>),
      ("category" :> <<"V","e","t","e","r","i","n","a","r","y">>) @@ ("nameOfMedicine" :> <<>>)
          @@ ("marketingAuthorisationDate" :> NULL) @@ ("inn" :> <<"X">>),
      ("category" :> NULL) @@ ("nameOfMedicine" :> <<"a","B">>)
          @@ ("marketingAuthorisationDate" :> <<"2","0","1","9","-","1","2","-","3","1">>)
          @@ ("lastUpdatedDate" :> <<"2","0","2","1","-","0","3","-","0","4">>),
      ("category" :> <<"H","u","m","a","n">>) @@ ("nameOfMedicine" :> <<"B">>)
          @@ ("marketingAuthorisationDate" :> <<"2","0","2","0","-","0","1","-","0","2"," ">>) }

Stores ==
    UNION { { [i \in 1..n |-> NewRow(objs[i], i)] :
                objs \in [1..n -> StoredObjects] } : n \in 0..MaxStore }

\* startServer has been called and the process has not exited.
ServerUp == process.servers > 0 /\ ~process.exited

\* startServer: createMedicineAPI(db) and app.listen(port).
startServer == [process EXCEPT !.servers = @ + 1]

\* The then-callback of the import's promise: it runs once, when importCSV
\* has completed, whatever the counts of the outcome.
OnImportCompleted ==
    /\ pc = "done"
    /\ process.import
    /\ ~process.handled
    /\ ~process.exited
    /\ process' = [startServer EXCEPT !.handled = TRUE]
    /\ UNCHANGED <<store, nextId, store0, source, pc, failure, records, task,
                   result, logged, returned, response>>

\* The handlers run one request at a time: a request is taken when no
\* response is pending, and the response is then sent.
\* GET /medicines runs two statements, each awaited: the handler is at the
\* count query in ListCountOf and at the select in ListSelect.
ListCountOf(queries) ==
    /\ ServerUp
    /\ response = NoResponse
    /\ \E query \in queries, pp \in PageParams :
           response' = ListCounted(query, pp[1], pp[2])
    /\ UNCHANGED <<store, nextId, store0, importVars>>

ListCount == ListCountOf(Queries)

ListSelect ==
    /\ response.request.op = "listCount"
    /\ response' = ListSelected(response)
    /\ UNCHANGED <<store, nextId, store0, importVars>>

FieldValues ==
    /\ ServerUp
    /\ response = NoResponse
    /\ \E fieldName \in FieldNameParams :
           response' = FieldValuesResponse(fieldName)
    /\ UNCHANGED <<store, nextId, store0, importVars>>

GetById ==
    /\ ServerUp
    /\ response = NoResponse
    /\ \E id \in IdParams : response' = MedicineResponse(id)
    /\ UNCHANGED <<store, nextId, store0, importVars>>

\* The handler's promise resolves (or onError answers) and the response
\* leaves the server.
SendResponse ==
    /\ response # NoResponse
    /\ response.request.op \notin {"listCount", "statsPending"}
    /\ response' = NoResponse
    /\ UNCHANGED <<store, nextId, store0, importVars>>

\* A row committed by another process that has the database file open (an
\* import run started on the same file).
ExternalInsertOf(objects) ==
    /\ ServerUp
    /\ Len(store) < MaxStore
    /\ \E obj \in objects : store' = Append(store, NewRow(obj, nextId))
    /\ nextId' = nextId + 1
    /\ UNCHANGED <<store0, importVars, response>>

QueryNext ==
    ListCount \/ ListSelect \/ FieldValues \/ GetById \/ SendResponse

\* The page arithmetic alone, over the totals a count query can return.
MaxPage == 4
MaxTotal == 25

OptionalInts(lo, hi) == {None} \cup {Some(n) : n \in lo..hi}

Paginate ==
    /\ ServerUp
    /\ response = NoResponse
    /\ \E pageParam \in OptionalInts(1, MaxPage),
          pageSizeParam \in OptionalInts(1, MaxPageSize),
          total \in 0..MaxTotal :
           response' = PageResponse(pageParam, pageSizeParam, total)
    /\ UNCHANGED <<store, nextId, store0, importVars>>

PaginateNext == Paginate \/ SendResponse

InitQuery ==
    /\ store \in Stores
    /\ nextId = Len(store) + 1
    /\ store0 = store
    /\ source = [readable |-> FALSE, wellFormed |-> FALSE, lines |-> <<>>]
    /\ pc = "off"
    /\ failure = "none"
    /\ records = <<>>
    /\ task = <<>>
    /\ result = NoResult
    /\ logged = <<>>
    /\ returned = NoResult
    /\ response = NoResponse
    /\ process = ServerProcess

SpecQuery == InitQuery /\ [][QueryNext]_vars

InitPaginate == InitQuery /\ store = <<>>

SpecPaginate == InitPaginate /\ [][PaginateNext]_vars

\* An import followed by the server: the process is started with --import
\* on a small file, and the records are then fetched by identity.
\* Faulty variant: the catch callback starts the server instead of exiting.
OnImportFailed_StartsServer ==
    /\ pc = "failed"
    /\ process.import
    /\ ~process.handled
    /\ process' = [startServer EXCEPT !.handled = TRUE]
    /\ UNCHANGED <<store, nextId, store0, source, pc, failure, records, task,
                   result, logged, returned, response>>

\* The catch callback of the import's promise: process.exit(1).
OnImportFailed ==
    /\ pc = "failed"
    /\ process.import
    /\ ~process.handled
    /\ process' = [process EXCEPT !.handled = TRUE, !.exited = TRUE,
                                  !.code = 1]
    /\ UNCHANGED <<store, nextId, store0, source, pc, failure, records, task,
                   result, logged, returned, response>>

MaxRoundTripRows == 3

\* The entry point run with --import, and requests to the server it starts.
RoundTripNext ==
    \/ ImportNext
    \/ OnImportCompleted
    \/ OnImportFailed
    \/ GetById
    \/ SendResponse

InitRoundTrip == InitImport /\ Len(source.lines) <= MaxRoundTripRows

SpecRoundTrip == InitRoundTrip /\ [][RoundTripNext]_vars

(***************************************************************************)
(* Properties of the import run.                                           *)
(***************************************************************************)
Succeeded == {i \in DOMAIN task : task[i].st = "succeeded"}
Failed == {i \in DOMAIN task : task[i].st = "failed"}
NewRows == SubSeq(store, Len(store0) + 1, Len(store))
Finished == pc \in {"aggregated", "done"}

\* The columns the store holds for a record once it is inserted.
ColsOfRecord(record) == NewRow(validateRow(transformRow(record)), 0).col

\* The same, tabulated for the records of the sample lines.
SampleRecords ==
    {parseCSV(SourceLines(Len(SampleCells)))[i] : i \in 1..Len(SampleCells)}

SampleCols == [record \in SampleRecords |-> ColsOfRecord(record)]

\* The columns the store holds for record i once it is inserted.
ColsOf(i) ==
    IF records[i] \in SampleRecords THEN SampleCols[records[i]]
    ELSE ColsOfRecord(records[i])

\* C1: an import of N rows of which M fail reports successCount = N - M and
\* errorCount = M, every row has been attempted, and the rows added to the
\* store are exactly the N - M rows that did not fail.
C1_CountsAndInserts ==
    Finished =>
        LET N == Len(records)
            M == Cardinality(Failed)
        IN  /\ result.successCount = N - M
            /\ result.errorCount = M
            /\ result.successCount + result.errorCount = N
            /\ \A i \in 1..N : task[i].attempts = 1
            /\ Succeeded \cup Failed = 1..N
            /\ Len(store) = Len(store0) + (N - M)
            /\ SubSeq(store, 1, Len(store0)) = store0
            /\ \A i \in 1..N :
                 Cardinality({k \in 1..Len(NewRows) : NewRows[k].col = ColsOf(i)})
                   = Cardinality({j \in Succeeded : ColsOf(j) = ColsOf(i)})

C1_Witness ==
    /\ pc = "done"
    /\ Len(records) = 5
    /\ Cardinality(Failed) = 2
    /\ task[1].st = "failed"
    /\ task[2].st = "succeeded"
    /\ returned.successCount = 3

\* C2 as stated: the errors carried by the outcome importCSV returns are at
\* most five, whatever the number of failing rows.
C2_ReturnedSampleCapped ==
    pc = "done" => Len(returned.errors) <= PreviewSize

\* C2 amended: the errors importCSV prints are the first min(M, 5) of the
\* failures, while the returned outcome carries all M failures and
\* errorCount = M.
C2_LoggedSampleCapped ==
    pc = "done" =>
        LET M == Cardinality(Failed)
        IN  /\ Len(logged) <= PreviewSize
            /\ Len(logged) = (IF M < PreviewSize THEN M ELSE PreviewSize)
            /\ logged = SubSeq(returned.errors, 1, Len(logged))
            /\ returned.errorCount = M
            /\ Len(returned.errors) = M

C2_Witness ==
    /\ pc = "done"
    /\ Cardinality(Failed) > PreviewSize
    /\ Len(logged) = PreviewSize

\* Row-by-row processing: the outcome after rows 1..i, each with the fate
\* its fiber had.
RECURSIVE SequentialOutcome(_)
SequentialOutcome(i) ==
    IF i = 0
    THEN [kind |-> "outcome", successCount |-> 0, errorCount |-> 0,
          errors |-> <<>>]
    ELSE LET before == SequentialOutcome(i - 1)
         IN  IF task[i].st = "succeeded"
             THEN [before EXCEPT !.successCount = @ + 1]
             ELSE [before EXCEPT
                     !.errorCount = @ + 1,
                     !.errors = Append(@, [tag |-> task[i].error, row |-> i])]

\* C3: under every interleaving of the row fibers each record is attempted
\* exactly once and inserted at most once, and the outcome (the counts and
\* the failures in source-row order) is that of row-by-row processing.
C3_ExactlyOnceAndSequential ==
    /\ \A i \in DOMAIN task :
         /\ task[i].attempts <= 1
         /\ task[i].inserts <= 1
         /\ task[i].st = "succeeded" => task[i].inserts = 1
    /\ Len(store) - Len(store0) = Cardinality(Succeeded)
    /\ Finished =>
         /\ DOMAIN task = 1..Len(records)
         /\ \A i \in DOMAIN task :
              task[i].attempts = 1 /\ task[i].st \in {"succeeded", "failed"}
         /\ result = SequentialOutcome(Len(records))
         /\ \A k \in 1..(Len(result.errors) - 1) :
              result.errors[k].row < result.errors[k + 1].row

C3_Witness ==
    /\ pc = "done"
    /\ Len(records) >= 4
    /\ task[1].st = "succeeded" /\ task[2].st = "failed"
    /\ task[3].st = "succeeded" /\ task[4].st = "failed"
    /\ Len(NewRows) >= 2
    /\ NewRows[1].col = ColsOf(3)
    /\ NewRows[2].col = ColsOf(1)

\* C4: a read or parse failure fails importCSV as a whole: no outcome, no
\* row fiber, the store as it was; and a run whose source is readable and
\* well formed never fails, whatever its rows do.
C4_FatalReadAndParse ==
    /\ pc = "failed" =>
         /\ failure \in {"CSVReadError", "CSVParseError"}
         /\ failure = "CSVReadError" <=> ~source.readable
         /\ failure = "CSVParseError" => ~source.wellFormed
         /\ returned = NoResult
         /\ result = NoResult
         /\ task = <<>>
         /\ logged = <<>>
         /\ store = store0
    /\ (~source.readable \/ ~source.wellFormed) =>
         /\ pc \in {"start", "read", "failed"}
         /\ task = <<>>
         /\ store = store0
         /\ returned = NoResult
    /\ (source.readable /\ source.wellFormed) =>
         /\ pc # "failed"
         /\ failure = "none"

C4_Witness ==
    /\ pc = "failed"
    /\ failure = "CSVParseError"
    /\ Len(source.lines) >= 2
    /\ store0 # <<>>

(***************************************************************************)
(* Properties of the query engine.                                         *)
(***************************************************************************)
IsList == response.request.op = "list"
IsFields == response.request.op = "fields"
IsGetById == response.request.op = "getById"

Min(a, b) == IF a < b THEN a ELSE b

\* C5: a list request with no active filter (no parameters, pagination
\* only, or filter parameters with empty values) gets the match-all
\* predicate: totalRecords is the size of the store, the page is the
\* corresponding slice of the whole store, and every stored row is on the
\* page its position puts it on.
C5_NoFilterMatchesAll ==
    (IsList /\ \A k \in 1..Len(response.request.query) :
                   response.request.query[k][2] = <<>>) =>
        /\ response.status = 200
        /\ ~response.request.where.defined
        /\ response.pagination.totalRecords = Len(store)
        /\ response.data =
               SubSeq(store, response.offset + 1,
                      Min(response.offset + response.pagination.pageSize,
                          Len(store)))
        /\ \A i \in 1..Len(store) :
               /\ Matches(response.request.where, store[i])
               /\ LET size == response.pagination.pageSize
                      onPage == getPaginatedData(response.request.where,
                                    ((i - 1) \div size) + 1, size)
                  IN  \E k \in 1..Len(onPage) : onPage[k] = store[i]

C5_Witness ==
    /\ IsList
    /\ response.request.query = <<<<"category", <<>>>>>>
    /\ response.request.pageParam = Some(2)
    /\ Len(store) = 3
    /\ store[2].col["category"] = NULL
    /\ response.pagination.totalRecords = 3
    /\ response.data = <<store[2]>>

C6_ReservedNames ==
    { "page", "pageSize", "search", "marketingAuthorisationDateFrom",
      "marketingAuthorisationDateTo", "lastUpdatedDateFrom",
      "lastUpdatedDateTo" }

\* C6: no reserved parameter name is a key of the field table, and in every
\* list request a reserved parameter never yields a per-field LIKE
\* condition: page and pageSize yield no condition, search yields only the
\* OR-group, a date bound yields only its own comparison.
C6_ReservedNeverFieldFilter ==
    /\ \A r \in C6_ReservedNames :
           r \notin fieldMappingKeys /\ fieldMappingAt(r) = undefined
    /\ IsList =>
         LET conds == response.request.where.conditions
             query == QueryObject(response.request.query,
                                  response.request.pageParam,
                                  response.request.pageSizeParam)
             From(r) == {k \in 1..Len(conds) : conds[k].param = r}
         IN  /\ \A k \in 1..Len(conds) :
                    conds[k].op = "like" => conds[k].param \notin C6_ReservedNames
             /\ From("page") = {} /\ From("pageSize") = {}
             /\ \A r \in C6_ReservedNames \ {"page", "pageSize"} :
                    /\ Cardinality(From(r)) =
                           (IF Param(query, r) # <<>> THEN 1 ELSE 0)
                    /\ \A k \in From(r) :
                           conds[k].op =
                               (IF r = "search" THEN "or"
                                ELSE IF r \in {"marketingAuthorisationDateFrom",
                                               "lastUpdatedDateFrom"}
                                THEN ">=" ELSE "<=")

C6_Witness ==
    /\ IsList
    /\ response.request.pageParam = Some(2)
    /\ Param(response.request.query, "search") = <<"x">>
    /\ Param(response.request.query, "lastUpdatedDateTo") # <<>>
    /\ Len(response.request.where.conditions) = 2
    /\ response.status = 200

\* C7: a field name that is not one of the 39 canonical names makes
\* distinctValues fail with 400 without querying the store, and as a filter
\* parameter of list it adds no condition and causes no error.
C7_UnknownFieldRejected ==
    /\ (IsFields /\ response.request.fieldName \notin FieldNames) =>
           response.status = 400 /\ ~response.queried
    /\ IsList =>
           \A k \in 1..Len(response.request.query) :
               LET key == response.request.query[k][1]
               IN  key \notin (FieldNames \cup C6_ReservedNames) =>
                     /\ response.status = 200
                     /\ \A j \in 1..Len(response.request.where.conditions) :
                            response.request.where.conditions[j].param # key

\* C8: offset = (page - 1) * pageSize, totalPages = max(1, ceil(total /
\* pageSize)), hasNextPage = page < totalPages, hasPreviousPage = page > 1,
\* and the defaults are page 1 and pageSize 50.
C8_PageArithmetic ==
    response.request.op = "paginate" =>
        LET page == IF response.request.pageParam.present
                    THEN response.request.pageParam.value ELSE 1
            size == IF response.request.pageSizeParam.present
                    THEN response.request.pageSizeParam.value ELSE 50
            total == response.request.total
            p == response.pagination
            \* the least number of pages of this size that hold total rows
            ceil == CHOOSE n \in 0..(total + 1) :
                        /\ n * size >= total
                        /\ \A m \in 0..(total + 1) : m * size >= total => n <= m
        IN  /\ p.page = page /\ p.pageSize = size /\ p.totalRecords = total
            /\ response.offset = (page - 1) * size
            /\ p.totalPages = (IF ceil > 1 THEN ceil ELSE 1)
            /\ p.totalPages >= 1
            /\ p.hasNextPage = (page < p.totalPages)
            /\ p.hasPreviousPage = (page > 1)

C8_Witness ==
    /\ response.request.op = "paginate"
    /\ response.request.total = 25
    /\ response.request.pageSizeParam = Some(10)
    /\ response.request.pageParam = Some(2)
    /\ response.pagination.totalPages = 3
    /\ response.pagination.hasNextPage
    /\ response.pagination.hasPreviousPage
    /\ response.offset = 10

\* C9: for a canonical field, distinctValues answers with the non-empty
\* values of that column, each once, in ascending order, and with no
\* empty text and no NULL among them.
C9_DistinctSorted ==
    (IsFields /\ response.request.fieldName \in FieldNames) =>
        /\ response.status = 200
        /\ LET vs == response.values
               f == response.request.fieldName
           IN  /\ \A k \in 1..(Len(vs) - 1) : TextLess(vs[k], vs[k + 1])
               /\ \A k \in 1..Len(vs) : vs[k] # <<>> /\ vs[k] # NULL
               /\ \A j, k \in 1..Len(vs) : vs[j] = vs[k] => j = k
               /\ {vs[k] : k \in 1..Len(vs)} =
                      {store[i].col[f] : i \in 1..Len(store)} \ {NULL, <<>>}

C9_Witness ==
    /\ IsFields
    /\ response.request.fieldName = "nameOfMedicine"
    /\ Len(store) = 3
    /\ store[1].col["nameOfMedicine"] = <<"a","B">>
    /\ store[2].col["nameOfMedicine"] = <<>>
    /\ store[3].col["nameOfMedicine"] = <<"A","b">>
    /\ response.values = <<<<"A","b">>, <<"a","B">>>>

\* C10 as stated: getById answers 404 exactly when no stored row has the
\* requested identity, and otherwise answers with one record, a stored row
\* whose identity is the requested one.
C10_GetByIdExact ==
    (IsGetById /\ ~parseInt(response.request.id).nan) =>
        LET numId == parseInt(response.request.id).value
            hits == {i \in 1..Len(store) : store[i].id = numId}
        IN  /\ response.status \in {200, 404}
            /\ response.status = 404 <=> hits = {}
            /\ response.status = 200 =>
                 /\ response.matched = 1
                 /\ response.body.id = numId
                 /\ \E i \in hits : store[i] = response.body

(***************************************************************************)
(* Properties of an import followed by queries.                            *)
(***************************************************************************)
\* The field that each column of the CSV is stored in, by its header.
FieldOfColumn ==
    [c \in 1..Len(Headers) |->
        csvToTableMappingAt(cleanHeader(ParseField(Headers[c])))]

\* The columns whose header the dictionary maps to field f.
ColumnsFor(f) == {c \in 1..Len(Headers) : FieldOfColumn[c] = f}

\* The record fetched is one that the completed import added to the store.
FetchedImported ==
    /\ IsGetById
    /\ response.status = 200
    /\ pc = "done"
    /\ \E k \in 1..Len(NewRows) : NewRows[k] = response.body

\* The text of a cell with the white space around it removed.
Stripped(text) ==
    LET first == CHOOSE a \in 1..(Len(text) + 1) :
                    /\ \A k \in 1..(a - 1) : text[k] \in WhiteSpace
                    /\ a <= Len(text) => text[a] \notin WhiteSpace
        last == CHOOSE b \in 0..Len(text) :
                    /\ \A k \in (b + 1)..Len(text) : text[k] \in WhiteSpace
                    /\ b >= 1 => text[b] \notin WhiteSpace
    IN  SubSeq(text, first, last)

\* The name a column goes by: its header's text, stripped when unquoted.
ColumnName ==
    [c \in 1..Len(Headers) |->
        IF Headers[c].quoted THEN Headers[c].text
        ELSE Stripped(Headers[c].text)]

\* The first and the last column of the name that column c has.
FirstNamed(c) == CHOOSE d \in 1..c :
                     /\ ColumnName[d] = ColumnName[c]
                     /\ \A e \in 1..(d - 1) : ColumnName[e] # ColumnName[c]

LastNamed(c) == CHOOSE d \in c..Len(Headers) :
                    /\ ColumnName[d] = ColumnName[c]
                    /\ \A e \in (d + 1)..Len(Headers) :
                           ColumnName[e] # ColumnName[c]

\* The column whose cell is stored in field f.  Columns of one name count
\* as one column, standing where the first of them stands and holding the
\* cell of the last; of the names mapped to f, the one standing last gives
\* the value.
StoredColumn ==
    [f \in {g \in FieldNames : ColumnsFor(g) # {}} |->
        LET named == CHOOSE c \in ColumnsFor(f) :
                         \A d \in ColumnsFor(f) : FirstNamed(d) <= FirstNamed(c)
        IN  LastNamed(named)]

\* The record that source line i stands for when every cell is taken as
\* the CSV has it.
VerbatimRecord(i) ==
    [f \in FieldNames |->
        IF ColumnsFor(f) = {} THEN NULL
        ELSE LET text == source.lines[i][StoredColumn[f]][2].text
             IN  IF text = <<>> THEN NULL ELSE text]

\* The record that source line i stands for when the white space around
\* an unquoted cell is dropped.
TrimmedRecord(i) ==
    [f \in FieldNames |->
        IF ColumnsFor(f) = {} THEN NULL
        ELSE LET cell == source.lines[i][StoredColumn[f]][2]
                 value == IF cell.quoted THEN cell.text
                          ELSE Stripped(cell.text)
             IN  IF value = <<>> THEN NULL ELSE value]

\* C11 as stated: the record fetched for an imported line has, in every
\* field whose header is in the CSV, exactly the text of the cell as the
\* CSV has it, and NULL exactly when that text is empty.
C11_RoundTripVerbatim ==
    FetchedImported =>
        \E i \in Succeeded : response.body.col = VerbatimRecord(i)

\* C11 amended: the record fetched for an imported line has, in every
\* field whose header is in the CSV, the cell's text with the white space
\* around it removed when the cell is unquoted and unchanged when it is
\* quoted, NULL exactly when that value is empty; a field with no header
\* in the CSV is NULL.  When several columns map to the field the cell is
\* that of StoredColumn: columns of one header text count as one, at the
\* place of the first and with the cell of the last, and the last of the
\* header texts mapped to the field gives the value.  The records added
\* are, one for one, those of the lines that succeeded.
C11_RoundTripTrimmed ==
    /\ FetchedImported =>
           \E i \in Succeeded : response.body.col = TrimmedRecord(i)
    /\ pc = "done" =>
           \A i \in Succeeded :
               Cardinality({k \in 1..Len(NewRows) :
                               NewRows[k].col = TrimmedRecord(i)})
                 = Cardinality({j \in Succeeded :
                                   TrimmedRecord(j) = TrimmedRecord(i)})

\* Line 3 was imported and fetched: its name came back stripped, its
\* quoted date unchanged, and its category is the cell under CATEGORY
\* (column 5), not the cell of the last column, a second Category.
C11_Witness ==
    /\ FetchedImported
    /\ Succeeded = {3}
    /\ response.body.col["nameOfMedicine"] = <<"A","b">>
    /\ response.body.col["lastUpdatedDate"] = <<"2","0","2","0","-","0","1","-","0","2"," ">>
    /\ response.body.col["category"] = <<"H","u","m","a","n"," ">>
    /\ StoredColumn["category"] = 5
    /\ ColumnsFor("category") = {1, 5, 6}
    /\ source.lines[3][6][2].text = <<"H","u","m","a","n">>
    /\ response.body.col["inn"] = NULL

(***************************************************************************)
(* cleanHeader applied to raw header strings.                              *)
(***************************************************************************)
MaxHeaderLen == 3

HeaderChars == {" ", "\t", "\n", "\r", "(", "/", "A", "a"}

RECURSIVE Strings(_, _)
Strings(alphabet, n) ==
    IF n = 0 THEN {<<>>}
    ELSE LET shorter == Strings(alphabet, n - 1)
         IN  shorter \cup {Append(s, ch) : s \in shorter, ch \in alphabet}

RawHeaders == Strings(HeaderChars, MaxHeaderLen)

\* One call of cleanHeader on a raw header, and a second call on what the
\* first returned.
CleanHeader ==
    /\ response = NoResponse
    /\ \E raw \in RawHeaders :
           response' = [request |-> [op |-> "cleanHeader", raw |-> raw],
                        once |-> cleanHeader(raw),
                        twice |-> cleanHeader(cleanHeader(raw))]
    /\ UNCHANGED <<store, nextId, store0, importVars>>

CleanHeaderNext == CleanHeader \/ SendResponse

SpecCleanHeader == InitPaginate /\ [][CleanHeaderNext]_vars

\* C12 as stated: cleanHeader is idempotent for every raw header, headers
\* with tabs, carriage returns, newlines, spaces, parentheses and slashes
\* included.
C12_CleanHeaderIdempotent ==
    response.request.op = "cleanHeader" => response.twice = response.once

(***************************************************************************)
(* The same CSV imported several times in sequence.                        *)
(***************************************************************************)
MaxReimportRows == 2

\* The process is started again with --import on the same file: a new run
\* of importCSV against the store the earlier runs left.
ReImport ==
    /\ pc = "done"
    /\ response = NoResponse
    /\ Len(store) < MaxStore
    /\ pc' = "start"
    /\ store0' = store
    /\ failure' = "none"
    /\ records' = <<>>
    /\ task' = <<>>
    /\ result' = NoResult
    /\ logged' = <<>>
    /\ returned' = NoResult
    /\ UNCHANGED <<store, nextId, source, response, process>>

ReimportNext == ImportNext \/ ReImport

InitReimport == InitImport /\ Len(source.lines) <= MaxReimportRows

SpecReimport == InitReimport /\ [][ReimportNext]_vars

\* C13: an import run only appends.  The rows the store held when the run
\* started are still there, unchanged and in place; every row of the store
\* has its own identity; and when the run has finished, the store has
\* grown by successCount rows, holding one more copy of each row that
\* succeeded (so k runs of the same CSV leave k copies).
C13_AppendOnly ==
    /\ Len(store) >= Len(store0)
    /\ SubSeq(store, 1, Len(store0)) = store0
    /\ \A j, k \in 1..Len(store) : j # k => store[j].id # store[k].id
    /\ Finished =>
         /\ Len(store) = Len(store0) + result.successCount
         /\ \A i \in Succeeded :
              Cardinality({k \in 1..Len(store) : store[k].col = ColsOf(i)})
                = Cardinality({k \in 1..Len(store0) :
                                  store0[k].col = ColsOf(i)})
                  + Cardinality({j \in Succeeded : ColsOf(j) = ColsOf(i)})

\* The one-line CSV has been imported twice, the second run has finished,
\* and the store holds two copies of its row under different identities.
C13_Witness ==
    /\ pc = "done"
    /\ Len(source.lines) = 1
    /\ Len(store0) = 1
    /\ Len(store) = 2
    /\ result.successCount = 1
    /\ store[1].col = store[2].col
    /\ store[1].col = ColsOf(1)
    /\ store[1].id # store[2].id

(***************************************************************************)
(* GET /medicines/stats.                                                   *)
(***************************************************************************)
\* COUNT(CASE WHEN cond THEN 1 END): the rows for which cond is true.
CountWhen(rows) == Cardinality(rows)

\* Faulty variant: the authorised count uses LIKE as the other two do.
authorisedCount_Like ==
    CountWhen({k \in 1..Len(store) :
        like(store[k].col["medicineStatus"], <<"%","a","u","t","h","o","r","i","s","e","d","%">>)})

authorisedCount ==
    CountWhen({k \in 1..Len(store) :
        store[k].col["medicineStatus"] = <<"A","u","t","h","o","r","i","s","e","d">>})

withdrawnCount ==
    CountWhen({k \in 1..Len(store) :
        like(store[k].col["medicineStatus"], <<"%","w","i","t","h","d","r","a","w","n","%">>)})

refusedCount ==
    CountWhen({k \in 1..Len(store) :
        like(store[k].col["medicineStatus"], <<"%","r","e","f","u","s","e","d","%">>)})

\* Faulty variant: the category is compared without regard to case.
humanCount_AnyCase ==
    CountWhen({k \in 1..Len(store) :
        like(store[k].col["category"], <<"h","u","m","a","n">>)})

humanCount ==
    CountWhen({k \in 1..Len(store) :
        store[k].col["category"] = <<"H","u","m","a","n">>})

veterinaryCount ==
    CountWhen({k \in 1..Len(store) :
        store[k].col["category"] = <<"V","e","t","e","r","i","n","a","r","y">>})

\* Effect.all starts the three count queries together; each is a statement
\* of its own, and no transaction holds them together.
StatsQueries == {"total", "category", "status"}

\* What each of the three queries returns on the table as it is now.
StatsQueryResult(q) ==
    IF q = "total" THEN [total |-> Len(store)]
    ELSE IF q = "category"
    THEN [humanCount |-> humanCount, veterinaryCount |-> veterinaryCount]
    ELSE [authorisedCount |-> authorisedCount,
          withdrawnCount |-> withdrawnCount,
          refusedCount |-> refusedCount]

\* The handler has dispatched the three queries; none has run yet.
StatsDispatch ==
    /\ ServerUp
    /\ response = NoResponse
    /\ response' = [request |-> [op |-> "statsPending"],
                    results |-> << >>, seenRows |-> << >>]
    /\ UNCHANGED <<store, nextId, store0, importVars>>

\* One of the queries runs.  seenRows records the size of the table it saw.
StatsQuery(q) ==
    /\ response.request.op = "statsPending"
    /\ q \notin DOMAIN response.results
    /\ response' = [response EXCEPT
                       !.results = (q :> StatsQueryResult(q)) @@ @,
                       !.seenRows = (q :> Len(store)) @@ @]
    /\ UNCHANGED <<store, nextId, store0, importVars>>

\* All three have returned: the handler builds the response.
StatsRespond ==
    /\ response.request.op = "statsPending"
    /\ DOMAIN response.results = StatsQueries
    /\ LET stats == response.results["total"]
           categoryStats == response.results["category"]
           statusStats == response.results["status"]
       IN  response' =
               [request |-> [op |-> "stats"],
                status |-> 200,
                body |-> [totalMedicines |-> stats.total,
                          byCategory |->
                              [human |-> categoryStats.humanCount,
                               veterinary |-> categoryStats.veterinaryCount],
                          byStatus |->
                              [authorised |-> statusStats.authorisedCount,
                               withdrawn |-> statusStats.withdrawnCount,
                               refused |-> statusStats.refusedCount]],
                seenRows |-> response.seenRows]
    /\ UNCHANGED <<store, nextId, store0, importVars>>

\* The category and status columns of the rows the table is filled with.
StatsObjects ==
    { ("category" :> <<"H","u","m","a","n">>) @@ ("medicineStatus" :> <<"A","u","t","h","o","r","i","s","e","d">>),
      ("category" :> <<"V","e","t","e","r","i","n","a","r","y">>)
          @@ ("medicineStatus" :> <<"N","o","t"," ","a","u","t","h","o","r","i","s","e","d">>),
      ("category" :> <<"H","u","m","a","n">>) @@ ("medicineStatus" :> <<"W","i","t","h","d","r","a","w","n">>),
      ("category" :> NULL)
          @@ ("medicineStatus" :> <<"A","p","p","l","i","c","a","t","i","o","n"," ","r","e","f","u","s","e","d">>),
      ("category" :> <<"h","u","m","a","n">>) @@ ("medicineStatus" :> NULL) }

StatsStores ==
    UNION { { [i \in 1..n |-> NewRow(objs[i], i)] :
                objs \in [1..n -> StatsObjects] } : n \in 0..MaxStore }

\* The handler's steps, the rows another process commits to the database
\* file meanwhile, and the response leaving the server.
StatsNext ==
    \/ StatsDispatch
    \/ \E q \in StatsQueries : StatsQuery(q)
    \/ StatsRespond
    \/ ExternalInsertOf(StatsObjects)
    \/ SendResponse

InitStats ==
    /\ store \in StatsStores
    /\ nextId = Len(store) + 1
    /\ store0 = store
    /\ source = [readable |-> FALSE, wellFormed |-> FALSE, lines |-> <<>>]
    /\ pc = "off"
    /\ failure = "none"
    /\ records = <<>>
    /\ task = <<>>
    /\ result = NoResult
    /\ logged = <<>>
    /\ returned = NoResult
    /\ response = NoResponse
    /\ process = ServerProcess

SpecStats == InitStats /\ [][StatsNext]_vars

IsStats == response.request.op = "stats"

\* The keyword occurs in the text, letters compared without regard to case.
ContainsKeyword(v, keyword) ==
    /\ v # NULL
    /\ \E a \in 1..(Len(v) - Len(keyword) + 1) :
           ToLowerCase(SubSeq(v, a, a + Len(keyword) - 1)) = keyword

\* Counts over the first n rows of the table: the table as a statement
\* that saw n rows saw it (rows are only ever appended).
CategoryIn(n, category) ==
    Cardinality({k \in 1..n : store[k].col["category"] = category})

StatusIn(n, status) ==
    Cardinality({k \in 1..n : store[k].col["medicineStatus"] = status})

StatusHasIn(n, keyword) ==
    Cardinality({k \in 1..n :
                    ContainsKeyword(store[k].col["medicineStatus"], keyword)})

\* C14 as stated: total and the category counts are as described, and each
\* of the three status counts is the number of rows whose status contains
\* the keyword, authorised included.  The rows are those stored when the
\* statement that counts them runs.
C14_StatusBySubstring ==
    IsStats =>
        LET body == response.body
            seen == response.seenRows
        IN  /\ body.totalMedicines = seen["total"]
            /\ body.byCategory.human = CategoryIn(seen["category"], <<"H","u","m","a","n">>)
            /\ body.byCategory.veterinary
                 = CategoryIn(seen["category"], <<"V","e","t","e","r","i","n","a","r","y">>)
            /\ body.byStatus.authorised
                 = StatusHasIn(seen["status"], <<"a","u","t","h","o","r","i","s","e","d">>)
            /\ body.byStatus.withdrawn
                 = StatusHasIn(seen["status"], <<"w","i","t","h","d","r","a","w","n">>)
            /\ body.byStatus.refused
                 = StatusHasIn(seen["status"], <<"r","e","f","u","s","e","d">>)

\* C14 amended: total is the number of stored rows; human and veterinary
\* count the rows whose category is exactly Human / Veterinary; authorised
\* counts the rows whose status is exactly Authorised; withdrawn and
\* refused count the rows whose status contains the keyword, letters
\* compared without regard to case.  A row with no status or no category
\* is counted in total only.  The rows are those stored when the statement
\* that counts them runs.
C14_StatsCounts ==
    IsStats =>
        LET body == response.body
            seen == response.seenRows
        IN  /\ response.status = 200
            /\ body.totalMedicines = seen["total"]
            /\ body.byCategory.human = CategoryIn(seen["category"], <<"H","u","m","a","n">>)
            /\ body.byCategory.veterinary
                 = CategoryIn(seen["category"], <<"V","e","t","e","r","i","n","a","r","y">>)
            /\ body.byStatus.authorised
                 = StatusIn(seen["status"], <<"A","u","t","h","o","r","i","s","e","d">>)
            /\ body.byStatus.withdrawn
                 = StatusHasIn(seen["status"], <<"w","i","t","h","d","r","a","w","n">>)
            /\ body.byStatus.refused
                 = StatusHasIn(seen["status"], <<"r","e","f","u","s","e","d">>)

\* Statistics of a table holding an Authorised row, a Not authorised row
\* and a Withdrawn row, all three seen by every statement.
C14_Witness ==
    /\ IsStats
    /\ response.seenRows["total"] = 3
    /\ response.seenRows["category"] = 3
    /\ response.seenRows["status"] = 3
    /\ response.body.totalMedicines = 3
    /\ response.body.byStatus.authorised = 1
    /\ StatusHasIn(3, <<"a","u","t","h","o","r","i","s","e","d">>) = 2
    /\ response.body.byStatus.withdrawn = 1
    /\ response.body.byCategory.human = 2
    /\ response.body.byCategory.veterinary = 1

(***************************************************************************)
(* Properties of the filters and of malformed identities.                  *)
(***************************************************************************)
Digits == {"0", "1", "2", "3", "4", "5", "6", "7", "8", "9"}

\* A decimal integer: an optional sign and one or more digits, nothing else.
WellFormedInteger(s) ==
    LET digits == IF s # <<>> /\ Head(s) \in {"-", "+"} THEN Tail(s) ELSE s
    IN  /\ digits # <<>>
        /\ \A k \in 1..Len(digits) : digits[k] \in Digits

\* C15 as stated: an identity that is not a well-formed integer gets the 400
\* Invalid ID error without the store being queried, and no client error
\* (invalid field, not found, malformed identity) is answered with 500.
C15_MalformedIdRejected ==
    /\ (IsGetById /\ ~WellFormedInteger(response.request.id)) =>
           /\ response.status = 400
           /\ response.error = "Invalid ID"
           /\ ~response.queried
    /\ (IsGetById \/ IsFields) => response.status # 500

\* value occurs in v character for character.
LiteralContains(v, value) ==
    /\ v # NULL
    /\ \E a \in 1..(Len(v) + 1), b \in 0..Len(v) : SubSeq(v, a, b) = value

\* The slice of rows that the request's page is.
PageOf(rows) ==
    SubSeq(rows, response.offset + 1,
           Min(response.offset + response.pagination.pageSize, Len(rows)))

\* The parameters of the request that have a value.
ActiveParams ==
    {k \in 1..Len(response.request.query) :
        response.request.query[k][2] # <<>>}

\* Every per-field parameter with a value is contained in the row's field.
FieldFiltersHold(row) ==
    \A k \in ActiveParams :
        LET key == response.request.query[k][1]
        IN  key \in FieldNames =>
              LiteralContains(row.col[key], response.request.query[k][2])

\* C16 as stated: with only per-field filters active, list returns exactly
\* the rows in which every filtered field contains the parameter value as a
\* literal, case-sensitive substring.
C16_LiteralSubstring ==
    (IsList /\ \A k \in ActiveParams :
                   response.request.query[k][1] \in FieldNames) =>
        /\ response.status = 200
        /\ response.pagination.totalRecords =
               Len(SelectSeq(store, FieldFiltersHold))
        /\ response.data = PageOf(SelectSeq(store, FieldFiltersHold))

\* a <= b in the order of character codes, a proper prefix first.
LexLeq(a, b) ==
    \/ /\ Len(a) <= Len(b)
       /\ \A k \in 1..Len(a) : a[k] = b[k]
    \/ \E k \in 1..Min(Len(a), Len(b)) :
           /\ \A j \in 1..(k - 1) : a[j] = b[j]
           /\ CharCode[a[k]] < CharCode[b[k]]

\* The row's date is within the bounds the request gives for the field.
InBounds(row, field, from, to) ==
    LET lo == Param(response.request.query, from)
        hi == Param(response.request.query, to)
        v == row.col[field]
    IN  (lo # <<>> \/ hi # <<>>) =>
            /\ v # NULL
            /\ lo # <<>> => LexLeq(lo, v)
            /\ hi # <<>> => LexLeq(v, hi)

DateFiltersHold(row) ==
    /\ InBounds(row, "marketingAuthorisationDate",
                "marketingAuthorisationDateFrom",
                "marketingAuthorisationDateTo")
    /\ InBounds(row, "lastUpdatedDate", "lastUpdatedDateFrom",
                "lastUpdatedDateTo")

DateBoundNames ==
    { "marketingAuthorisationDateFrom", "marketingAuthorisationDateTo",
      "lastUpdatedDateFrom", "lastUpdatedDateTo" }

\* C17: every row a list request returns has its two dates within the
\* bounds the request gives, both bounds inclusive, and a row with no date
\* is not returned when a bound of that date is given; when the date bounds
\* are the only filters, the rows returned are exactly the rows within the
\* bounds.
C17_DateBoundsInclusive ==
    (IsList /\ response.status = 200) =>
        /\ \A k \in 1..Len(response.data) : DateFiltersHold(response.data[k])
        /\ (\A k \in ActiveParams :
                response.request.query[k][1] \in DateBoundNames) =>
               /\ response.pagination.totalRecords =
                      Len(SelectSeq(store, DateFiltersHold))
               /\ response.data = PageOf(SelectSeq(store, DateFiltersHold))

\* Both bounds of the authorisation date are given and equal; the row whose
\* date is the bound is returned, the rows with an earlier date, a later
\* date and no date are not.
C17_Witness ==
    /\ IsList
    /\ Param(response.request.query, "marketingAuthorisationDateFrom")
         = <<"2","0","2","0","-","0","1","-","0","2">>
    /\ Param(response.request.query, "marketingAuthorisationDateTo")
         = <<"2","0","2","0","-","0","1","-","0","2">>
    /\ response.request.pageParam = None
    /\ Len(store) = 3
    /\ store[1].col["marketingAuthorisationDate"] = <<"2","0","2","0","-","0","1","-","0","2">>
    /\ store[2].col["marketingAuthorisationDate"] = NULL
    /\ store[3].col["marketingAuthorisationDate"] = <<"2","0","2","0","-","0","1","-","0","2"," ">>
    /\ response.data = <<store[1]>>

C18_SearchFields ==
    { "nameOfMedicine", "inn", "activeSubstance", "therapeuticArea",
      "therapeuticIndication", "marketingAuthorisationDeveloper",
      "emaProductNumber" }

\* The search term is a substring of one of the seven fields of the row.
SearchHolds(row) ==
    \E f \in C18_SearchFields :
        LiteralContains(row.col[f], Param(response.request.query, "search"))

\* C18 as stated: a search term puts one OR-group over exactly the seven
\* fields into the predicate; the group holds for a row iff the term is a
\* substring of one of them, and it is combined with AND with every other
\* condition.
C18_SearchGroup ==
    (IsList /\ response.status = 200
        /\ Param(response.request.query, "search") # <<>>) =>
        LET conds == response.request.where.conditions
            groups == {j \in 1..Len(conds) : conds[j].op = "or"}
        IN  /\ Cardinality(groups) = 1
            /\ \A j \in groups :
                   {conds[j].columns[c] : c \in 1..Len(conds[j].columns)}
                     = C18_SearchFields
            /\ \A k \in 1..Len(response.data) :
                   /\ SearchHolds(response.data[k])
                   /\ DateFiltersHold(response.data[k])
                   /\ \A j \in 1..Len(conds) :
                          Holds(conds[j], response.data[k])
            /\ (\A k \in ActiveParams :
                    response.request.query[k][1] = "search") =>
                   response.pagination.totalRecords =
                       Len(SelectSeq(store, SearchHolds))

(***************************************************************************)
(* The fields the documented Medicine schema declares required.            *)
(***************************************************************************)
C19_RequiredFields ==
    { "category", "nameOfMedicine", "inn", "activeSubstance",
      "marketingAuthorisationDeveloper" }

\* C19 as stated: every record returned after a successful import has a
\* value for id and for each of the five required fields, because row
\* validation rejects a row that lacks one.
C19_RequiredFieldsPresent ==
    /\ FetchedImported =>
           /\ response.body.id \in Nat
           /\ \A f \in C19_RequiredFields : response.body.col[f] # NULL
    /\ \A i \in DOMAIN task :
           task[i].st \in {"inserting", "succeeded"} =>
               LET validated == validateRow(transformRow(records[i]))
               IN  \A f \in C19_RequiredFields :
                       f \in DOMAIN validated /\ validated[f] # NULL

(***************************************************************************)
(* transformRow applied to raw rows.                                       *)
(***************************************************************************)
MaxRowEntries == 2

\* The headers and cells of the raw rows.
RawKeys ==
    { <<"C","a","t","e","g","o","r","y">>, <<"N","a","m","e"," ","o","f"," ","m","e","d","i","c","i","n","e">>, <<"i","d">>, <<"N","o","t","e","s">>,
      <<"c","o","n","s","t","r","u","c","t","o","r">>, <<"C","o","n","s","t","r","u","c","t","o","r">> }

RawVals == { <<>>, <<"A","b">> }

\* The raw rows: objects of up to MaxRowEntries entries, each header once.
RawRows ==
    UNION { { row \in [1..n -> RawKeys \X RawVals] :
                \A j, k \in 1..n : j # k => row[j][1] # row[k][1] } :
            n \in 0..MaxRowEntries }

\* One call of transformRow on a raw row.
TransformRow ==
    /\ response = NoResponse
    /\ \E row \in RawRows :
           response' = [request |-> [op |-> "transformRow", row |-> row],
                        insertObj |-> transformRow(row)]
    /\ UNCHANGED <<store, nextId, store0, importVars>>

TransformNext == TransformRow \/ SendResponse

SpecTransform == InitPaginate /\ [][TransformNext]_vars

\* C20 as stated: the object transformRow returns has only canonical field
\* names as keys, never id; a header that is no dictionary key (id and the
\* built-in property names included) adds nothing, and a field no header of
\* the row maps to is left out.
C20_KeysCanonical ==
    response.request.op = "transformRow" =>
        LET row == response.request.row
            insertObj == response.insertObj
            mapped == {f \in FieldNames :
                         \E k \in 1..Len(row), p \in csvToTableMapping :
                             p[1] = cleanHeader(row[k][1]) /\ p[2] = f}
        IN  /\ DOMAIN insertObj \subseteq FieldNames
            /\ "id" \notin DOMAIN insertObj
            /\ DOMAIN insertObj = mapped

(***************************************************************************)
(* GET /medicines while another process writes to the database file.       *)
(* The handler runs the count query and the paginated select as two        *)
(* statements, not in one transaction.                                     *)
(***************************************************************************)
\* The requests: no filter, and a filter on the category.
RaceQueries == { <<>>, << <<"category", <<"H","u","m","a","n">>>> >> }

ExternalInsert == ExternalInsertOf(StoredObjects)

ListRaceNext ==
    ListCountOf(RaceQueries) \/ ListSelect \/ ExternalInsert \/ SendResponse

InitListRace == InitQuery /\ Len(store) <= 1

SpecListRace == InitListRace /\ [][ListRaceNext]_vars

\* The row passes the request's category filter, if it has one.
PassesFilter(row) ==
    \A k \in ActiveParams :
        ContainsKeyword(row.col[response.request.query[k][1]],
                        ToLowerCase(response.request.query[k][2]))

\* The rows passing the filter among the first n rows of the table.
PassingIn(n) == SelectSeq(SubSeq(store, 1, n), PassesFilter)

Max(a, b) == IF a > b THEN a ELSE b

\* C21 as stated: in every list response, rows inserted between the count
\* and the select or not, data.length <= pageSize, offset + data.length <=
\* totalRecords, and hasNextPage is true exactly when rows passing the
\* filter exist beyond offset + pageSize.
C21_PageConsistent ==
    IsList =>
        /\ Len(response.data) <= response.pagination.pageSize
        /\ response.offset + Len(response.data)
             <= response.pagination.totalRecords
        /\ response.pagination.hasNextPage
             <=> Len(PassingIn(response.selectedRows))
                   > response.offset + response.pagination.pageSize

\* C21 amended: data.length <= pageSize always.  totalRecords is the number
\* of rows passing the filter when the count query ran and data is the page
\* of the rows passing it when the select ran, so data holds at least
\* min(pageSize, max(0, totalRecords - offset)) rows; it holds exactly that
\* many, and hasNextPage is true exactly when rows passing the filter exist
\* beyond offset + pageSize, when no row was inserted between the two
\* queries.  A page beyond the last has no rows, whatever its offset.
C21_PageMetadata ==
    IsList =>
        LET size == response.pagination.pageSize
            total == response.pagination.totalRecords
            expected == Min(size, Max(0, total - response.offset))
        IN  /\ Len(response.data) <= size
            /\ total = Len(PassingIn(response.countedRows))
            /\ response.data = PageOf(PassingIn(response.selectedRows))
            /\ Len(response.data) >= expected
            /\ response.selectedRows = response.countedRows =>
                 /\ Len(response.data) = expected
                 /\ response.pagination.hasNextPage
                      <=> Len(PassingIn(response.selectedRows))
                            > response.offset + size

\* A row was inserted between the count and the select: the response has a
\* row on its page and says there are none.
C21_Witness ==
    /\ IsList
    /\ response.countedRows = 0
    /\ response.selectedRows = 1
    /\ response.pagination.totalRecords = 0
    /\ Len(response.data) = 1
    /\ response.request.query # <<>>

(***************************************************************************)
(* Properties of GET /medicines/stats while another process writes to the  *)
(* database file.                                                          *)
(***************************************************************************)
\* C22 as stated: in every stats response, rows inserted while the three
\* queries run or not, human + veterinary <= totalMedicines and each of
\* authorised, withdrawn and refused is <= totalMedicines.
C22_OneSnapshot ==
    IsStats =>
        /\ response.body.byCategory.human + response.body.byCategory.veterinary
             <= response.body.totalMedicines
        /\ response.body.byStatus.authorised <= response.body.totalMedicines
        /\ response.body.byStatus.withdrawn <= response.body.totalMedicines
        /\ response.body.byStatus.refused <= response.body.totalMedicines

\* C22 amended: each of the three queries counts the table as it is when
\* that query runs.  totalMedicines is the table's size at the total query;
\* human and veterinary are the category counts at the category query, so
\* human + veterinary is at most the table's size then; authorised,
\* withdrawn and refused are the status counts at the status query, each at
\* most the table's size then.  The bounds by totalMedicines hold when the
\* total query did not run before an insert that the other query saw.
C22_PerQuerySnapshot ==
    IsStats =>
        LET body == response.body
            seen == response.seenRows
        IN  /\ body.totalMedicines = seen["total"]
            /\ body.byCategory.human = CategoryIn(seen["category"], <<"H","u","m","a","n">>)
            /\ body.byCategory.veterinary
                 = CategoryIn(seen["category"], <<"V","e","t","e","r","i","n","a","r","y">>)
            /\ body.byCategory.human + body.byCategory.veterinary
                 <= seen["category"]
            /\ body.byStatus.authorised
                 = StatusIn(seen["status"], <<"A","u","t","h","o","r","i","s","e","d">>)
            /\ body.byStatus.withdrawn
                 = StatusHasIn(seen["status"], <<"w","i","t","h","d","r","a","w","n">>)
            /\ body.byStatus.refused
                 = StatusHasIn(seen["status"], <<"r","e","f","u","s","e","d">>)
            /\ body.byStatus.authorised <= seen["status"]
            /\ body.byStatus.withdrawn <= seen["status"]
            /\ body.byStatus.refused <= seen["status"]
            /\ seen["category"] <= seen["total"] =>
                   body.byCategory.human + body.byCategory.veterinary
                     <= body.totalMedicines
            /\ seen["status"] <= seen["total"] =>
                   /\ body.byStatus.authorised <= body.totalMedicines
                   /\ body.byStatus.withdrawn <= body.totalMedicines
                   /\ body.byStatus.refused <= body.totalMedicines

\* The total query ran on the empty table, a Human, Authorised row was
\* inserted, and the other two queries counted it.
C22_Witness ==
    /\ IsStats
    /\ response.seenRows["total"] = 0
    /\ response.seenRows["category"] = 1
    /\ response.seenRows["status"] = 1
    /\ response.body.totalMedicines = 0
    /\ response.body.byCategory.human = 1
    /\ response.body.byStatus.authorised = 1

(***************************************************************************)
(* The process from its start: the --import handling of the entry point.   *)
(***************************************************************************)
MaxProcessRows == 2

\* The top-level code: with --import in the arguments the import is
\* started and the server is left to the promise's callbacks; without, the
\* server is started.
Main ==
    /\ pc = "main"
    /\ IF process.import
       THEN pc' = "start" /\ process' = process
       ELSE pc' = "off" /\ process' = startServer
    /\ UNCHANGED <<store, nextId, store0, source, failure, records, task,
                   result, logged, returned, response>>

ProcessNext ==
    \/ Main
    \/ ImportNext
    \/ OnImportCompleted
    \/ OnImportFailed
    \/ GetById
    \/ SendResponse

InitProcess ==
    /\ store \in {<<>>, <<OldRow>>}
    /\ nextId = Len(store) + 1
    /\ store0 = store
    /\ source \in [readable : BOOLEAN, wellFormed : BOOLEAN,
                   lines : {SourceLines(n) : n \in 0..MaxProcessRows}]
    /\ pc = "main"
    /\ failure = "none"
    /\ records = <<>>
    /\ task = <<>>
    /\ result = NoResult
    /\ logged = <<>>
    /\ returned = NoResult
    /\ response = NoResponse
    /\ process \in [import : BOOLEAN, handled : {FALSE}, servers : {0},
                    exited : {FALSE}, code : {0}]

SpecProcess == InitProcess /\ [][ProcessNext]_vars

\* C23: the server is started at most once.  Started with --import, it is
\* started only when the import run has completed, with row failures or
\* without; when the import has failed with a read or parse error the
\* process exits with code 1 and the server is never started.  Started
\* without --import, the server is started by the top-level code and no
\* import is run.  Requests are answered only by a started server.
C23_ServerAfterImport ==
    /\ process.servers <= 1
    /\ (process.import /\ process.servers = 1) =>
           /\ pc = "done"
           /\ returned = result
           /\ returned.successCount + returned.errorCount = Len(records)
           /\ failure = "none"
    /\ (process.import /\ process.handled) =>
           IF pc = "done"
           THEN process.servers = 1 /\ ~process.exited
           ELSE /\ pc = "failed"
                /\ failure \in {"CSVReadError", "CSVParseError"}
                /\ process.exited /\ process.code = 1
                /\ process.servers = 0
    /\ failure # "none" => process.servers = 0
    /\ process.exited => process.code = 1 /\ failure # "none"
    /\ ~process.import =>
           /\ pc \in {"main", "off"}
           /\ pc = "off" <=> process.servers = 1
           /\ ~process.exited
           /\ store = store0 /\ records = <<>> /\ task = <<>>
           /\ returned = NoResult
    /\ response # NoResponse => process.servers = 1 /\ ~process.exited

\* The import has completed with a failed row and an inserted row, the
\* server has been started after it, and a request has been answered.
C23_Witness ==
    /\ process.import
    /\ process.servers = 1
    /\ pc = "done"
    /\ returned.errorCount = 1
    /\ returned.successCount = 1
    /\ IsGetById
    /\ response.status = 200

====
